---------------------------- MODULE Spec2Model ----------------------------
(***************************************************************************)
(* A model of the context-aware ranking engine of the EV charging-station  *)
(* recommender (backend/services/Hybrid_Algorithm.py, class                *)
(* HybridAlgorithm) and of the part of the /get-recommendations handler    *)
(* that decorates the engine's list (backend/routes/                       *)
(* recommendation_routes.py).                                              *)
(* The last two sections model the bookings collection                     *)
(* (backend/models/booking.py) under concurrent requests: timed bookings,  *)
(* the status route, the payment routes and the cleanup thread.            *)
(*                                                                         *)
(* Numbers.  The code computes in binary floating point; the model         *)
(* computes in fixed point over the integers:                              *)
(*   distances          tenths of a kilometre                              *)
(*   energies           1e-4 kWh                                           *)
(*   scores             1e-4                           (Scale == 10^4)     *)
(*   weights            thousandths                    (0.25 is 250)       *)
(*   ratings            tenths of a star               (4.0 is 40)         *)
(*   speeds             thousandths of a km/h                              *)
(*   minutes            tenths of a minute                                 *)
(* A quotient is truncated to the unit of its result (FixDiv); Python's    *)
(* round(x, n) is RoundHalfEven.  The trigonometric functions              *)
(* haversine_distance and calculate_bearing are represented by their       *)
(* results: a station record carries its distance from the origin, its     *)
(* distance to the destination and its bearing difference.                 *)
(***************************************************************************)
EXTENDS Integers, Sequences, FiniteSets, TLC

VARIABLES
    pc,                        \* position of the run
    user_context,              \* the request's context (get_enhanced_recommendations)
    stations,                  \* the candidate list handed to the engine
    max_recommendations,       \* the K of top-K
    idx,                       \* loop index of `for station in stations`
    route_filtering_enabled,   \* destination resolved to coordinates
    should_filter_unreachable, \* the dynamic reachability filter
    scored_stations,           \* the list the loop appends to
    route_filtered_count,
    unreachable_filtered_count,
    skipped_count,             \* stations left by `continue` for a bad location
    rejected,                  \* ids the route filter rejected (ghost, for the claims)
    result,                    \* the returned object, <<>> until returned
    sc_in, sc_out,             \* input and output of one calculate_enhanced_score call
    en_in, en_out,             \* inputs and outputs of calculate_energy_consumption calls
    st_in, st_out,             \* one candidate through the loop body, and what it computes
    recommendations,           \* /get-recommendations: the list the engine returned
    enhanced_recommendations,  \* /get-recommendations: the list being built for the response
    rec_idx,                   \* /get-recommendations: position in recommendations
    response,                  \* /get-recommendations: the response, <<>> until sent
    bookings,                  \* the bookings collection, in insertion order
    clock,                     \* the latest utcnow() a cleanup pass has read
    requests,                  \* the request each server thread is in the middle of
    expired_bookings,          \* cleanup_expired_bookings: what its cursor still holds
    paid_succeeded             \* bookings whose update to 'paid' returned True (ghost)

\* the state of the /get-recommendations handler after the engine's return
HandlerVars == <<recommendations, enhanced_recommendations, rec_idx, response>>

\* the bookings collection and the threads working on it
BookingVars == <<bookings, clock, requests, expired_bookings, paid_succeeded>>

\* the inputs and outputs of the calls studied on their own
CallVars == <<sc_in, sc_out, en_in, en_out, st_in, st_out, HandlerVars,
              BookingVars>>

vars == <<pc, user_context, stations, max_recommendations, idx,
          route_filtering_enabled, should_filter_unreachable, scored_stations,
          route_filtered_count, unreachable_filtered_count, skipped_count,
          rejected, result, CallVars>>

----------------------------------------------------------------------------
(* Units and arithmetic                                                    *)

Scale == 10^4

Max(a, b) == IF a >= b THEN a ELSE b
Min(a, b) == IF a <= b THEN a ELSE b

\* floor(n * Scale / d) for n >= 0, d > 0, without leaving 32 bits
FixDiv(n, d) ==
    LET q  == n \div d
        r  == n % d
        h  == (r * 100) \div d
        r2 == (r * 100) % d
    IN  q * Scale + h * 100 + (r2 * 100) \div d

\* Python's round(): n / unit to the nearest integer, a tie to the even one
RoundHalfEven(n, unit) ==
    LET q == n \div unit
        r == n % unit
    IN  IF 2 * r < unit THEN q
        ELSE IF 2 * r > unit THEN q + 1
        ELSE IF q % 2 = 0 THEN q ELSE q + 1

RECURSIVE SumOver(_, _)
SumOver(f, S) ==
    IF S = {} THEN 0
    ELSE LET k == CHOOSE x \in S : TRUE IN f[k] + SumOver(f, S \ {k})

----------------------------------------------------------------------------
(* HybridAlgorithm.__init__: the tables                                    *)

WeightKeys == {"distance", "availability", "energy_efficiency", "urgency",
               "price", "plug_compatibility", "rating"}

base_weights ==
    [distance |-> 250, availability |-> 200, energy_efficiency |-> 150,
     urgency |-> 150, price |-> 100, plug_compatibility |-> 100, rating |-> 50]

context_weight_adjustments ==
    [emergency |->
        [distance |-> 400, availability |-> 300, energy_efficiency |-> 200,
         urgency |-> 100, price |-> 0, plug_compatibility |-> 0, rating |-> 0],
     high |->
        [distance |-> 350, availability |-> 250, energy_efficiency |-> 200,
         urgency |-> 150, price |-> 50, plug_compatibility |-> 0, rating |-> 0],
     medium |->
        [distance |-> 250, availability |-> 200, energy_efficiency |-> 150,
         urgency |-> 150, price |-> 100, plug_compatibility |-> 100, rating |-> 50],
     low |->
        [distance |-> 200, availability |-> 150, energy_efficiency |-> 100,
         urgency |-> 50, price |-> 200, plug_compatibility |-> 150, rating |-> 150]]

\* energy_factors: base 0.2 kWh/km, AC +15 %, +3 % per extra passenger (percent)
terrain_multipliers == [flat |-> 100, hilly |-> 120, steep |-> 150]

\* eta_factors
driving_modes == [economy |-> 30, sports |-> 60, random |-> 45]
traffic_multipliers == [heavy |-> 6, medium |-> 8, light |-> 10]
terrain_speed_impact == [flat |-> 10, hilly |-> 8, steep |-> 6]
weather_impact == [clear |-> 10, rain |-> 9, fog |-> 7, snow |-> 5]

\* dict.get(key, default)
Get(table, key, default) == IF key \in DOMAIN table THEN table[key] ELSE default

\* str.lower() on the urgency and terrain tags the model draws
Lower(s) ==
    CASE s = "EMERGENCY" -> "emergency"
      [] s = "High" -> "high"
      [] s = "Steep" -> "steep"
      [] OTHER -> s

----------------------------------------------------------------------------
(* calculate_energy_consumption                                            *)

\* a variant that charges the AC penalty when the AC is off
TotalConsumptionAcInverted(distance, ac_status, passengers, terrain) ==
    LET base_consumption == distance * 2 * 100
        ac_penalty == IF ac_status THEN 0 ELSE distance * 2 * 15
        additional_passengers == Max(0, passengers - 1)
        passenger_penalty == distance * 2 * (additional_passengers * 3)
        terrain_multiplier == Get(terrain_multipliers, Lower(terrain), 100)
        terrain_penalty == distance * 2 * (terrain_multiplier - 100)
    IN  base_consumption + ac_penalty + passenger_penalty + terrain_penalty

\* total_consumption in 1e-4 kWh: base = distance * 0.2 kWh/km (a tenth of a km
\* is 200 units), the penalties in percent of it
TotalConsumption(distance, ac_status, passengers, terrain) ==
    LET base_consumption == distance * 2 * 100
        ac_penalty == IF ac_status THEN distance * 2 * 15 ELSE 0
        additional_passengers == Max(0, passengers - 1)
        passenger_penalty == distance * 2 * (additional_passengers * 3)
        terrain_multiplier == Get(terrain_multipliers, Lower(terrain), 100)
        terrain_penalty == distance * 2 * (terrain_multiplier - 100)
    IN  base_consumption + ac_penalty + passenger_penalty + terrain_penalty

\* usable_energy in 1e-4 kWh: (battery / 100) * 60 kWh * 0.8
UsableEnergy(battery_percentage) == battery_percentage * 4800

calculate_energy_consumption(distance, ac_status, passengers, terrain, battery_percentage) ==
    LET total_consumption ==
            TotalConsumption(distance, ac_status, passengers, terrain)
        ac_penalty == IF ac_status THEN distance * 2 * 15 ELSE 0
        passenger_penalty == distance * 2 * (Max(0, passengers - 1) * 3)
        terrain_penalty ==
            distance * 2 * (Get(terrain_multipliers, Lower(terrain), 100) - 100)
        usable_energy == UsableEnergy(battery_percentage)
        energy_efficiency_score ==
            IF usable_energy > 0
            THEN Max(0, Scale - FixDiv(total_consumption, usable_energy))
            ELSE 0
    IN  [total_consumption |-> total_consumption,
         usable_energy |-> usable_energy,
         ac_penalty_kwh |-> RoundHalfEven(ac_penalty, 100),
         passenger_penalty_kwh |-> RoundHalfEven(passenger_penalty, 100),
         terrain_penalty_kwh |-> RoundHalfEven(terrain_penalty, 100),
         total_consumption_kwh |-> RoundHalfEven(total_consumption, 100),
         usable_energy_kwh |-> RoundHalfEven(usable_energy, 100),
         is_reachable |-> total_consumption <= usable_energy,
         energy_efficiency_score |-> energy_efficiency_score]

----------------------------------------------------------------------------
(* calculate_eta                                                           *)

calculate_eta(distance, driving_mode, traffic_condition, terrain, weather) ==
    LET base_speed == Get(driving_modes, driving_mode, 45)
        traffic_multiplier == Get(traffic_multipliers, traffic_condition, 10)
        terrain_multiplier == Get(terrain_speed_impact, terrain, 10)
        weather_multiplier == Get(weather_impact, weather, 10)
        \* thousandths of a km/h, kept within [5, 120] km/h
        effective_speed ==
            Max(5000, Min(120000, base_speed * traffic_multiplier
                                   * terrain_multiplier * weather_multiplier))
    IN  [effective_speed |-> effective_speed,
         \* round(travel_time_minutes, 1), in tenths of a minute
         travel_time_minutes |->
            RoundHalfEven(distance * 60000, effective_speed)]

----------------------------------------------------------------------------
(* calculate_enhanced_score                                                *)

\* a variant that takes the battery level as given
ClampBatteryAsGiven(battery_percentage) == battery_percentage

\* max(1, min(100, battery_percentage))
ClampBattery(battery_percentage) == Max(1, Min(100, battery_percentage))

\* max(1, min(8, passengers))
ClampPassengers(passengers) == Max(1, Min(8, passengers))

\* max(0, 1 - distance / 50)
DistanceScore(distance) == Max(0, Scale - (distance * Scale) \div 500)

\* availability / total_slots if total_slots > 0 else 0
AvailabilityScore(availability, total_slots) ==
    IF total_slots > 0 THEN (availability * Scale) \div total_slots ELSE 0

\* a variant that measures the consumption against the whole battery, the
\* 20 % reserve included, before the tiers adjust it
EnergyEfficiencyScoreOfAvailable(energy_analysis, battery_percentage) ==
    LET available_energy == (energy_analysis.usable_energy * 10) \div 8
        s == IF available_energy > 0
             THEN Max(0, Scale - FixDiv(energy_analysis.total_consumption,
                                        available_energy))
             ELSE 0
        reachable == energy_analysis.is_reachable
    IN  IF battery_percentage <= 20
        THEN IF ~reachable THEN 0 ELSE Min(Scale, s * 2)
        ELSE IF battery_percentage <= 40
        THEN IF ~reachable THEN (s * 2) \div 10 ELSE Min(Scale, (s * 15) \div 10)
        ELSE IF battery_percentage <= 60
        THEN IF ~reachable THEN (s * 5) \div 10 ELSE Min(Scale, (s * 12) \div 10)
        ELSE IF ~reachable THEN 0 ELSE s

\* the battery-tier adjustment of the energy efficiency score
EnergyEfficiencyScore(energy_analysis, battery_percentage) ==
    LET s == energy_analysis.energy_efficiency_score
        reachable == energy_analysis.is_reachable
    IN  IF battery_percentage <= 20
        THEN IF ~reachable THEN 0 ELSE Min(Scale, s * 2)
        ELSE IF battery_percentage <= 40
        THEN IF ~reachable THEN (s * 2) \div 10 ELSE Min(Scale, (s * 15) \div 10)
        ELSE IF battery_percentage <= 60
        THEN IF ~reachable THEN (s * 5) \div 10 ELSE Min(Scale, (s * 12) \div 10)
        ELSE IF ~reachable THEN 0 ELSE s

\* urgency multiplier plus the distance / rating bonuses
UrgencyScore(urgency, distance, rating) ==
    LET u == Lower(urgency)
        urgency_multipliers ==
            [low |-> 3000, medium |-> 6000, high |-> 8000, emergency |-> 10000]
        urgency_multiplier == Get(urgency_multipliers, u, 6000)
    IN  IF u = "emergency"
        THEN IF distance <= 50 THEN Min(Scale, Scale + 3000)
             ELSE IF distance <= 150 THEN Min(Scale, Scale + 2000)
             ELSE Scale
        ELSE IF u = "high"
        THEN IF distance <= 100 THEN Min(Scale, urgency_multiplier + 2000)
             ELSE IF distance <= 250 THEN Min(Scale, urgency_multiplier + 1000)
             ELSE urgency_multiplier
        ELSE IF u = "low"
        THEN IF rating >= 40 THEN Min(Scale, urgency_multiplier + 1000)
             ELSE urgency_multiplier
        ELSE urgency_multiplier

\* max(0, 1 - (pricing - 10) / (35 - 10))
PriceScore(pricing) == Max(0, Scale - ((pricing - 10) * Scale) \div (35 - 10))

\* 1.0 if the plug is offered or none is asked for, else 0.3
PlugCompatibilityScore(plug_type, connector_types) ==
    IF plug_type \in connector_types \/ plug_type = "" THEN Scale ELSE 3000

\* rating / 5.0
RatingScore(rating) == (rating * Scale) \div 50

\* max(0, 1 - travel_time_minutes / 120)
EtaScore(eta_analysis) ==
    Max(0, Scale - (eta_analysis.travel_time_minutes * Scale) \div 1200)

\* the tier's weight vector, or base_weights for an unknown tier
TierWeights(urgency) ==
    Get(context_weight_adjustments, Lower(urgency), base_weights)

\* the battery-level adjustment of the weights (thousandths)
BatteryAdjustedWeights(weights, battery_percentage) ==
    IF battery_percentage <= 20
    THEN [weights EXCEPT
            !.energy_efficiency = Min(350, (@ * 15) \div 10),
            !.distance = Min(350, (@ * 13) \div 10),
            !.price = Max(50, (@ * 5) \div 10),
            !.rating = Max(20, (@ * 5) \div 10)]
    ELSE IF battery_percentage <= 40
    THEN [weights EXCEPT
            !.energy_efficiency = Min(300, (@ * 13) \div 10),
            !.distance = Min(300, (@ * 12) \div 10),
            !.price = Max(50, (@ * 7) \div 10)]
    ELSE IF battery_percentage >= 80
    THEN [weights EXCEPT
            !.price = Min(150, (@ * 13) \div 10),
            !.rating = Min(80, (@ * 15) \div 10),
            !.energy_efficiency = Max(80, (@ * 8) \div 10)]
    ELSE weights

\* total_weight = sum(weights.values())
TotalWeight(weights) == SumOver(weights, DOMAIN weights)

\* a variant that skips the renormalization (takes the total to be 1)
NormalizeWeightsUnscaled(weights) ==
    [k \in DOMAIN weights |-> [num |-> weights[k], den |-> 1000]]

\* weights_used: each weight v / total_weight as the fraction <<v, total_weight>>,
\* or the base weights (a fraction of 1000) when the total is not positive
NormalizeWeights(weights) ==
    LET total_weight == TotalWeight(weights)
    IN  IF total_weight > 0
        THEN [k \in DOMAIN weights |-> [num |-> weights[k], den |-> total_weight]]
        ELSE [k \in DOMAIN base_weights |-> [num |-> base_weights[k], den |-> 1000]]

WeightsUsed(urgency, battery_percentage) ==
    NormalizeWeights(BatteryAdjustedWeights(TierWeights(urgency), battery_percentage))

\* min(1.0, max(0.0, x))
ClampScore(x) == Min(Scale, Max(0, x))

\* station: the normalized record; ctx: the user context
calculate_enhanced_score(station, distance, ctx) ==
    LET battery_percentage == ClampBattery(ctx.battery_percentage)
        passengers == ClampPassengers(ctx.passengers)
        energy_analysis ==
            calculate_energy_consumption(distance, ctx.ac_status, passengers,
                                         ctx.terrain, battery_percentage)
        eta_analysis ==
            calculate_eta(distance, ctx.driving_mode, ctx.traffic_condition,
                          ctx.terrain, ctx.weather)
        s == [distance |-> DistanceScore(distance),
              availability |->
                 AvailabilityScore(station.availability, station.total_slots),
              energy_efficiency |->
                 EnergyEfficiencyScore(energy_analysis, battery_percentage),
              urgency |-> UrgencyScore(ctx.urgency, distance, station.rating),
              price |-> PriceScore(station.pricing),
              plug_compatibility |->
                 PlugCompatibilityScore(ctx.plug_type, station.connector_types),
              rating |-> RatingScore(station.rating)]
        eta_score == EtaScore(eta_analysis)
        weights == WeightsUsed(ctx.urgency, battery_percentage)
        den == weights["distance"].den
        weighted == [k \in WeightKeys |-> weights[k].num * s[k]]
        composite_score == SumOver(weighted, WeightKeys) \div den + eta_score \div 10
    IN  [total_score |-> ClampScore(composite_score),
         \* the sub-scores as computed, in 1e-4
         scores |-> [k \in WeightKeys \cup {"eta"} |->
                        IF k = "eta" THEN eta_score ELSE s[k]],
         \* round(x, 3) of each, in thousandths
         breakdown |-> [k \in WeightKeys \cup {"eta"} |->
                        RoundHalfEven(IF k = "eta" THEN eta_score ELSE s[k], 10)],
         energy_analysis |-> energy_analysis,
         eta_analysis |-> eta_analysis,
         is_reachable |-> energy_analysis.is_reachable,
         weights_used |-> weights]

----------------------------------------------------------------------------
(* Route filter: get_city_coordinates, is_station_along_route              *)

\* city_coords, for a request made from Kathmandu (27.7172, 85.3240): the
\* haversine distance (tenths of a km) and the bearing (degrees) of the cities
\* the requests name; Kathmandu itself is the first entry of the table
city_coords == [Kathmandu |-> [direct_distance |-> 0, bearing |-> 0],
                Pokhara |-> [direct_distance |-> 1424, bearing |-> 293]]

\* city_name.strip().title() on the names the model draws
Title(city_name) ==
    CASE city_name = "pokhara" -> "Pokhara"
      [] city_name = "pokh" -> "Pokh"
      [] city_name = " " -> ""
      [] OTHER -> city_name

\* lines 1488-1490: the first city whose lower-case name contains the
\* lower-case normalized name or is contained in it, on the names the model
\* draws (the empty name is contained in every name), or "None"
FuzzyMatch(normalized_name) ==
    CASE normalized_name = "" -> "Kathmandu"
      [] normalized_name = "Pokh" -> "Pokhara"
      [] OTHER -> "None"

\* a variant that resolves every name to some city
get_city_coordinates_nearest(city_name) ==
    IF Title(city_name) = "Kathmandu" THEN "Kathmandu" ELSE "Pokhara"

\* the city's entry, or "None"
get_city_coordinates(city_name) ==
    LET normalized_name == Title(city_name)
    IN  IF normalized_name \in DOMAIN city_coords THEN normalized_name
        ELSE FuzzyMatch(normalized_name)

\* a variant that orders the tiers the other way round
urgency_detour_multipliers_inverted == [low |-> 20, medium |-> 15, high |-> 10, emergency |-> 8]

urgency_detour_multipliers == [low |-> 8, medium |-> 10, high |-> 15, emergency |-> 20]
urgency_angle_multipliers == [low |-> 8, medium |-> 10, high |-> 12, emergency |-> 15]

\* abs(bearing_to_dest - bearing_to_station), folded to [0, 180]
AngleDiff(bearing_to_dest, bearing_to_station) ==
    LET d == IF bearing_to_dest >= bearing_to_station
             THEN bearing_to_dest - bearing_to_station
             ELSE bearing_to_station - bearing_to_dest
    IN  IF d > 180 THEN 360 - d ELSE d

\* a variant whose detour test is strict: a detour equal to the budget fails
is_station_along_route_strict(destination, station, max_detour10, urgency) ==
    LET direct_distance == city_coords[destination].direct_distance
        via_station_distance == station.distance + station.dist_to_dest
        detour_distance == via_station_distance - direct_distance
        angle_diff == AngleDiff(city_coords[destination].bearing, station.bearing)
        angle_limit10 == 90 * Get(urgency_angle_multipliers, Lower(urgency), 10)
    IN  [is_along_route |-> /\ detour_distance * 10 < max_detour10
                            /\ angle_diff * 10 <= angle_limit10,
         detour_distance |-> detour_distance,
         angle_difference |-> angle_diff,
         distance_to_station |-> station.distance,
         route_efficiency |->
            IF via_station_distance > 0
            THEN FixDiv(direct_distance, via_station_distance) ELSE 0]

\* a variant that takes the efficiency of an empty trip (0 / 0) to be 1
is_station_along_route_whole(destination, station, max_detour10, urgency) ==
    LET direct_distance == city_coords[destination].direct_distance
        via_station_distance == station.distance + station.dist_to_dest
        detour_distance == via_station_distance - direct_distance
        angle_diff == AngleDiff(city_coords[destination].bearing, station.bearing)
        angle_limit10 == 90 * Get(urgency_angle_multipliers, Lower(urgency), 10)
    IN  [is_along_route |-> /\ detour_distance * 10 <= max_detour10
                            /\ angle_diff * 10 <= angle_limit10,
         detour_distance |-> detour_distance,
         angle_difference |-> angle_diff,
         distance_to_station |-> station.distance,
         route_efficiency |->
            IF via_station_distance > 0
            THEN FixDiv(direct_distance, via_station_distance) ELSE Scale]

\* max_detour10: ten times the detour budget, in tenths of a km
is_station_along_route(destination, station, max_detour10, urgency) ==
    LET direct_distance == city_coords[destination].direct_distance
        distance_to_station == station.distance
        distance_station_to_dest == station.dist_to_dest
        via_station_distance == distance_to_station + distance_station_to_dest
        detour_distance == via_station_distance - direct_distance
        is_along_route == detour_distance * 10 <= max_detour10
        angle_diff == AngleDiff(city_coords[destination].bearing, station.bearing)
        angle_limit10 == 90 * Get(urgency_angle_multipliers, Lower(urgency), 10)
        is_right_direction == angle_diff * 10 <= angle_limit10
    IN  [is_along_route |-> is_along_route /\ is_right_direction,
         detour_distance |-> detour_distance,
         angle_difference |-> angle_diff,
         distance_to_station |-> distance_to_station,
         route_efficiency |->
            IF via_station_distance > 0
            THEN FixDiv(direct_distance, via_station_distance) ELSE 0]

\* a variant without the emergency override
RouteAnalysisNoOverride(destination, station, ctx) ==
    is_station_along_route(destination, station,
                           ctx.max_detour_km * 10
                               * Get(urgency_detour_multipliers, Lower(ctx.urgency), 10),
                           ctx.urgency)

\* lines 686-712 of get_enhanced_recommendations: the urgency-adjusted budget
\* and the emergency override (every station within 50 km is admitted)
RouteAnalysis(destination, station, ctx) ==
    LET adjusted_max_detour10 ==
            ctx.max_detour_km * 10
                * Get(urgency_detour_multipliers, Lower(ctx.urgency), 10)
        ra == is_station_along_route(destination, station,
                                     adjusted_max_detour10, ctx.urgency)
    IN  IF Lower(ctx.urgency) = "emergency" /\ ra.distance_to_station <= 500
        THEN [ra EXCEPT !.is_along_route = TRUE]
        ELSE ra

----------------------------------------------------------------------------
(* get_enhanced_recommendations: helpers                                   *)

\* battery <= 30 or urgency high / emergency or the explicit flag
ShouldFilterUnreachable(ctx) ==
    \/ ctx.battery_percentage <= 30
    \/ Lower(ctx.urgency) \in {"high", "emergency"}
    \/ ctx.filter_unreachable

\* Python values of the 'pricing' key: a string or a number
PyStr(text) == [str |-> text]
PyNum(n) == [num |-> n]

\* re.search(r'(\d+)', text): the first run of digits of the strings the model
\* draws, <<>> when there is none
ReSearchDigits(text) ==
    CASE text = "20" -> <<20>>
      [] text = "NPR 12 per kWh" -> <<12>>
      [] text = "NPR 30 per kWh" -> <<30>>
      [] OTHER -> <<>>

\* lines 949-958: the number in the pricing string, 20 when there is none or
\* when the value is no string (re.search raises, the bare except keeps 20)
ParsePricing(pricing_str) ==
    IF "str" \in DOMAIN pricing_str
    THEN LET match == ReSearchDigits(pricing_str.str)
         IN  IF match # <<>> THEN match[1] ELSE 20
    ELSE 20

\* Python's None where the code expects a string (None.lower() raises) and
\* where it expects a list (`plug_type in None` raises)
PyNone == "<None>"
PyNoneList == {PyNone}

\* _normalize_station_data: a record with a 'chargers' key is read as raw
\* JSON, any other as the ChargingStation model format
normalize_station_data(station) ==
    IF "chargers" \in DOMAIN station
    THEN LET chargers == station.chargers
             available_chargers ==
                SelectSeq(chargers, LAMBDA c : Get(c, "available", FALSE))
         IN  [id |-> station.id,
              availability |-> Len(available_chargers),
              total_slots |-> Len(chargers),
              connector_types |-> {chargers[k].type : k \in 1..Len(chargers)},
              pricing |-> ParsePricing(Get(station, "pricing", PyStr("20"))),
              rating |-> Get(station, "rating", 40)]
    ELSE [id |-> station.id,
          availability |-> Get(station, "available_slots", 0),
          total_slots |-> Get(station, "total_slots", 0),
          connector_types |-> Get(station, "connector_types", {}),
          pricing |-> Get(station, "pricing_per_kwh", 20),
          rating |-> Get(station, "rating", 40)]

NoRoute == [is_along_route |-> FALSE, detour_distance |-> 0,
            angle_difference |-> 0, distance_to_station |-> 0,
            route_efficiency |-> 0]

\* line 733: calculate_enhanced_score raises on urgency.lower() (line 468)
\* when the urgency is None and on `plug_type in station_plugs` (line 504)
\* when the station's connector_types is None
ScoringRaises(normalized_station, ctx) ==
    \/ ctx.urgency = PyNone
    \/ normalized_station.connector_types = PyNoneList

\* lines 736-759: the analysis that replaces the one that raised; distance *
\* 0.2 kWh and (battery / 100) * 60 * 0.8 kWh, in hundredths of a kWh
FallbackScoreAnalysis(distance, battery_percentage) ==
    [total_score |-> Max(0, Scale - (distance * Scale) \div 500),
     energy_analysis |-> [total_consumption_kwh |-> distance * 2,
                          usable_energy_kwh |-> battery_percentage * 48,
                          is_reachable |-> TRUE],
     eta_analysis |-> [travel_time_minutes |-> (distance * 15) \div 10],
     is_reachable |-> TRUE]

\* lines 796-800: the entry's context_factors read four keys of the energy
\* analysis; a missing one is a KeyError
ContextFactorKeys == {"ac_penalty_kwh", "passenger_penalty_kwh", "terrain_penalty_kwh", "total_consumption_kwh"}

EntryRaises(score_analysis) ==
    ~(ContextFactorKeys \subseteq DOMAIN score_analysis.energy_analysis)

\* lines 731-766: the score of one station, with the route efficiency bonus
ScoreAnalysis(station, ctx, has_route, route_analysis) ==
    LET normalized_station == normalize_station_data(station)
        sa == IF ScoringRaises(normalized_station, ctx)
              THEN FallbackScoreAnalysis(station.distance, ctx.battery_percentage)
              ELSE calculate_enhanced_score(normalized_station,
                                            station.distance, ctx)
    IN  IF has_route /\ route_analysis.is_along_route
        THEN [sa EXCEPT !.total_score =
                Min(Scale, @ + route_analysis.route_efficiency \div 10)]
        ELSE sa

\* lines 775-811: the recommendation entry
Recommendation(station, sa, has_route, route_analysis) ==
    [id |-> station.id,
     distance |-> station.distance,
     score |-> sa.total_score,
     is_reachable |-> sa.is_reachable,
     total_consumption_kwh |-> sa.energy_analysis.total_consumption_kwh,
     usable_energy_kwh |-> sa.energy_analysis.usable_energy_kwh,
     has_route_analysis |-> has_route,
     is_along_route |-> has_route /\ route_analysis.is_along_route,
     fallback_recommendation |-> FALSE,
     fallback_reason |-> ""]

\* lines 858-871: the basic recommendation of the last-resort pass
BasicRecommendation(station, battery_percentage) ==
    [id |-> station.id,
     distance |-> station.distance,
     score |-> Max(1000, Scale - (station.distance * Scale) \div 500),
     is_reachable |-> TRUE,
     \* distance * 0.2 and (battery / 100) * 60 * 0.8, in hundredths of a kWh
     total_consumption_kwh |-> station.distance * 2,
     usable_energy_kwh |-> battery_percentage * 48,
     has_route_analysis |-> FALSE,
     is_along_route |-> FALSE,
     fallback_recommendation |-> TRUE,
     fallback_reason |-> "Basic fallback recommendation due to scoring issues"]

\* a variant of the sort that is not stable: an entry goes before its equals
RECURSIVE InsertByScoreUnstable(_, _)
InsertByScoreUnstable(sorted, r) ==
    IF sorted = <<>> THEN <<r>>
    ELSE IF Head(sorted).score > r.score
         THEN <<Head(sorted)>> \o InsertByScoreUnstable(Tail(sorted), r)
         ELSE <<r>> \o sorted

\* list.sort(key = score, reverse = True): stable, equal scores keep their order
RECURSIVE InsertByScore(_, _)
InsertByScore(sorted, r) ==
    IF sorted = <<>> THEN <<r>>
    ELSE IF Head(sorted).score >= r.score
         THEN <<Head(sorted)>> \o InsertByScore(Tail(sorted), r)
         ELSE <<r>> \o sorted

RECURSIVE SortByScore(_)
SortByScore(list) ==
    IF list = <<>> THEN <<>>
    ELSE InsertByScore(SortByScore(SubSeq(list, 1, Len(list) - 1)),
                       list[Len(list)])

\* a variant that does not truncate
TakeAll(list, n) == list

\* list[:n]
Take(list, n) == SubSeq(list, 1, Min(n, Len(list)))

\* [s for s in list if s['is_reachable']]
Reachable(list) == SelectSeq(list, LAMBDA s : s.is_reachable)

\* lines 827-832: score * 0.5, flagged, for each unreachable entry
HalveUnreachable(list) ==
    [k \in 1..Len(list) |->
        IF ~list[k].is_reachable
        THEN [list[k] EXCEPT !.score = (@ * 5) \div 10,
                             !.fallback_recommendation = TRUE,
                             !.fallback_reason = "unreachable"]
        ELSE list[k]]

\* lines 841-875: basic recommendations for the first max_rec stations that
\* have a location
RECURSIVE BasicRecommendations(_, _)
BasicRecommendations(list, battery_percentage) ==
    IF list = <<>> THEN <<>>
    ELSE (IF Head(list).has_location
          THEN <<BasicRecommendation(Head(list), battery_percentage)>>
          ELSE <<>>)
         \o BasicRecommendations(Tail(list), battery_percentage)

----------------------------------------------------------------------------
(* The inputs of a run                                                     *)

MaxStations == 2

\* The station registry: stations around Kathmandu on a trip to Pokhara
\* (142.4 km away, bearing 293), on the line to the destination or behind the
\* origin.  Station 1 has no usable location; 5 and 6 are twins; station 9
\* carries connector_types = None.
StationAt(id, has_location, distance, dist_to_dest, bearing, available_slots, pricing_per_kwh, rating) ==
    [id |-> id, has_location |-> has_location, distance |-> distance,
     dist_to_dest |-> dist_to_dest, bearing |-> bearing,
     available_slots |-> available_slots, total_slots |-> 4,
     pricing_per_kwh |-> pricing_per_kwh, rating |-> rating,
     connector_types |-> {"CCS"}]

StationCatalogue ==
    { StationAt(1, FALSE, 0, 0, 0, 2, 15, 40),
      StationAt(2, TRUE, 30, 1394, 293, 2, 15, 40),
      StationAt(3, TRUE, 30, 1454, 113, 4, 15, 40),
      StationAt(4, TRUE, 300, 1124, 293, 0, 25, 45),
      StationAt(5, TRUE, 400, 1024, 293, 4, 15, 40),
      StationAt(6, TRUE, 400, 1024, 293, 4, 15, 40),
      StationAt(7, TRUE, 800, 624, 293, 2, 15, 40),
      StationAt(8, TRUE, 800, 2224, 113, 2, 15, 40),
      [StationAt(9, TRUE, 100, 1324, 293, 2, 15, 40)
          EXCEPT !.connector_types = PyNoneList] }

\* the candidate lists: up to MaxStations different stations, in any order
StationLists ==
    UNION { { l \in [1..n -> StationCatalogue] :
                \A a, b \in 1..n : a # b => l[a].id # l[b].id } :
            n \in 0..MaxStations }

BatteryLevels == {10, 30, 31}
UrgencyLevels == {"medium", "High", "emergency", PyNone}
\* time.time() - start_time, in milliseconds: what the clock happens to give
ProcessingTimes == {1, 2}
DestinationCities == {"", "pokhara", "pokh", "Atlantis"}
\* max_recommendations = 5 in the signature
DefaultMaxRecommendations == 5
MaxRecommendations == {1, DefaultMaxRecommendations}

\* the request's context; the keys the request leaves out take their defaults
Contexts ==
    { [battery_percentage |-> b, urgency |-> u, filter_unreachable |-> f,
       destination_city |-> c, max_detour_km |-> 20, ac_status |-> FALSE,
       passengers |-> 1, terrain |-> "flat", plug_type |-> "",
       driving_mode |-> "random", traffic_condition |-> "light",
       weather |-> "clear"] :
        b \in BatteryLevels, u \in UrgencyLevels, f \in BOOLEAN,
        c \in DestinationCities }

----------------------------------------------------------------------------
(* get_enhanced_recommendations as a state machine:                        *)
(* Init -> Scoring (one step per candidate) -> RankingOrFallback -> Done   *)

NoRequest ==
    /\ recommendations = <<>>
    /\ enhanced_recommendations = <<>>
    /\ rec_idx = 1
    /\ response = <<>>

\* no bookings and nothing working on them
NoBooking ==
    /\ bookings = <<>>
    /\ clock = 0
    /\ requests = <<>>
    /\ expired_bookings = <<>>
    /\ paid_succeeded = {}

Idle == /\ sc_in = <<>> /\ sc_out = <<>> /\ en_in = <<>> /\ en_out = <<>>
        /\ st_in = <<>> /\ st_out = <<>>
        /\ NoRequest

Init ==
    /\ pc = "Init"
    /\ user_context \in Contexts
    /\ stations \in StationLists
    /\ max_recommendations \in MaxRecommendations
    /\ idx = 1
    /\ route_filtering_enabled = FALSE
    /\ should_filter_unreachable = FALSE
    /\ scored_stations = <<>>
    /\ route_filtered_count = 0
    /\ unreachable_filtered_count = 0
    /\ skipped_count = 0
    /\ rejected = {}
    /\ result = <<>>
    /\ Idle
    /\ NoBooking

\* lines 608-617: no stations, an empty result
ReturnNoStations ==
    /\ pc = "Init"
    /\ stations = <<>>
    /\ result' = <<[recommendations |-> <<>>,
                    algorithm_used |-> "Enhanced Hybrid Algorithm",
                    processing_time_ms |-> 0,
                    total_stations_processed |-> 0,
                    stations_filtered |-> 0,
                    route_filtered |-> 0,
                    unreachable_filtered |-> 0,
                    reachable_stations |-> 0,
                    error |-> ""]>>
    /\ pc' = "Done"
    /\ UNCHANGED <<user_context, stations, max_recommendations, idx,
                   route_filtering_enabled, should_filter_unreachable,
                   scored_stations, route_filtered_count,
                   unreachable_filtered_count, skipped_count, rejected, CallVars>>

\* line 658: `battery_percentage <= 30 or urgency.lower() in ...` raises when
\* the battery test fails and the urgency is no string
RaisesAtStart(ctx) == ctx.battery_percentage > 30 /\ ctx.urgency = PyNone

\* lines 697 and 733-797: inside the loop urgency.lower() raises in the route
\* filter, or in the scoring, whose replacement analysis lacks the keys the
\* recommendation entry reads
RaisesInLoop(ctx) == ctx.urgency = PyNone

\* a variant without the outer handler: the exception leaves the function
NotCaught == FALSE

\* line 913: an exception raised outside the loop reaches the outer handler
CaughtOutside == pc = "Init" /\ stations # <<>> /\ RaisesAtStart(user_context)

\* lines 913-923: an exception outside the loop, the error result
ReturnError ==
    /\ CaughtOutside
    /\ result' = <<[recommendations |-> <<>>,
                    algorithm_used |-> "Enhanced Hybrid Algorithm (Error)",
                    processing_time_ms |-> 0,
                    total_stations_processed |-> 0,
                    stations_filtered |-> 0,
                    route_filtered |-> 0,
                    unreachable_filtered |-> 0,
                    reachable_stations |-> 0,
                    error |-> "'NoneType' object has no attribute 'lower'"]>>
    /\ pc' = "Done"
    /\ UNCHANGED <<user_context, stations, max_recommendations, idx,
                   route_filtering_enabled, should_filter_unreachable,
                   scored_stations, route_filtered_count,
                   unreachable_filtered_count, skipped_count, rejected, CallVars>>

\* lines 625-660: resolve the destination, decide the reachability filter
StartRun ==
    /\ pc = "Init"
    /\ stations # <<>>
    /\ ~RaisesAtStart(user_context)
    /\ route_filtering_enabled' =
          (/\ user_context.destination_city # ""
           /\ get_city_coordinates(user_context.destination_city) # "None")
    /\ should_filter_unreachable' = ShouldFilterUnreachable(user_context)
    /\ idx' = 1
    /\ pc' = "Scoring"
    /\ UNCHANGED <<user_context, stations, max_recommendations, scored_stations,
                   route_filtered_count, unreachable_filtered_count,
                   skipped_count, rejected, result, CallVars>>

InLoop == pc = "Scoring" /\ idx <= Len(stations)

CurrentRoute ==
    IF route_filtering_enabled
    THEN RouteAnalysis(get_city_coordinates(user_context.destination_city),
                       stations[idx], user_context)
    ELSE NoRoute

CurrentScore ==
    ScoreAnalysis(stations[idx], user_context, route_filtering_enabled, CurrentRoute)

LoopFrame == UNCHANGED <<user_context, stations, max_recommendations,
                         route_filtering_enabled, should_filter_unreachable,
                         result, CallVars>>

\* lines 679-681: no usable location, the station is passed over
SkipInvalidLocation ==
    /\ InLoop
    /\ ~stations[idx].has_location
    /\ skipped_count' = skipped_count + 1
    /\ idx' = idx + 1
    /\ UNCHANGED <<pc, scored_stations, route_filtered_count,
                   unreachable_filtered_count, rejected>>
    /\ LoopFrame

\* lines 815-817: processing the station raised, the station is passed over
SkipOnError ==
    /\ InLoop
    /\ stations[idx].has_location
    /\ \/ RaisesInLoop(user_context)
       \/ /\ ~RaisesInLoop(user_context)
          /\ route_filtering_enabled => CurrentRoute.is_along_route
          /\ ~(should_filter_unreachable /\ ~CurrentScore.is_reachable)
          /\ EntryRaises(CurrentScore)
    /\ skipped_count' = skipped_count + 1
    /\ idx' = idx + 1
    /\ UNCHANGED <<pc, scored_stations, route_filtered_count,
                   unreachable_filtered_count, rejected>>
    /\ LoopFrame

\* lines 714-718: not along the route, the station is passed over
FilterByRoute ==
    /\ InLoop
    /\ stations[idx].has_location
    /\ ~RaisesInLoop(user_context)
    /\ route_filtering_enabled
    /\ ~CurrentRoute.is_along_route
    /\ route_filtered_count' = route_filtered_count + 1
    /\ rejected' = rejected \cup {stations[idx].id}
    /\ idx' = idx + 1
    /\ UNCHANGED <<pc, scored_stations, unreachable_filtered_count, skipped_count>>
    /\ LoopFrame

\* lines 768-772: unreachable while the filter is on, the station is passed over
FilterUnreachable ==
    /\ InLoop
    /\ stations[idx].has_location
    /\ ~RaisesInLoop(user_context)
    /\ route_filtering_enabled => CurrentRoute.is_along_route
    /\ should_filter_unreachable
    /\ ~CurrentScore.is_reachable
    /\ unreachable_filtered_count' = unreachable_filtered_count + 1
    /\ idx' = idx + 1
    /\ UNCHANGED <<pc, scored_stations, route_filtered_count, skipped_count,
                   rejected>>
    /\ LoopFrame

\* lines 774-813: the station becomes a recommendation
AppendRecommendation ==
    /\ InLoop
    /\ stations[idx].has_location
    /\ ~RaisesInLoop(user_context)
    /\ route_filtering_enabled => CurrentRoute.is_along_route
    /\ ~(should_filter_unreachable /\ ~CurrentScore.is_reachable)
    /\ ~EntryRaises(CurrentScore)
    /\ scored_stations' =
          Append(scored_stations,
                 Recommendation(stations[idx], CurrentScore,
                                route_filtering_enabled, CurrentRoute))
    /\ idx' = idx + 1
    /\ UNCHANGED <<pc, route_filtered_count, unreachable_filtered_count,
                   skipped_count, rejected>>
    /\ LoopFrame

\* a variant that leaves the list as the loop built it
RankedAsScored(list, filter) == list

\* lines 819-835: sort by score; with the filter on, nothing reachable and
\* something scored, halve the unreachable entries' scores and sort again
RankedOrHalved(list, filter) ==
    LET sorted == SortByScore(list)
    IN  IF filter /\ Reachable(sorted) = <<>> /\ sorted # <<>>
        THEN SortByScore(HalveUnreachable(sorted))
        ELSE sorted

RankOrFallback ==
    /\ pc = "Scoring"
    /\ idx > Len(stations)
    /\ scored_stations' = RankedOrHalved(scored_stations, should_filter_unreachable)
    /\ pc' = "RankingOrFallback"
    /\ UNCHANGED <<idx, route_filtered_count, unreachable_filtered_count,
                   skipped_count, rejected>>
    /\ LoopFrame

\* lines 837-875: nothing scored although stations exist, fall back to basic
\* recommendations for stations[:max_recommendations]
WithBasicFallback(list, candidates, max_rec, battery_percentage) ==
    IF list = <<>> /\ candidates # <<>>
    THEN BasicRecommendations(Take(candidates, max_rec), battery_percentage)
    ELSE list

\* lines 837-911: the last-resort pass, the top max_recommendations, the result
ReturnRecommendations ==
    /\ pc = "RankingOrFallback"
    /\ LET final == WithBasicFallback(scored_stations, stations,
                                      max_recommendations,
                                      user_context.battery_percentage)
       IN  /\ scored_stations' = final
           /\ \E processing_time \in ProcessingTimes : result' =
                <<[recommendations |-> Take(final, max_recommendations),
                   algorithm_used |->
                      IF route_filtering_enabled
                      THEN "Enhanced Hybrid Algorithm (Route)"
                      ELSE "Enhanced Hybrid Algorithm",
                   processing_time_ms |-> processing_time,
                   total_stations_processed |-> Len(stations),
                   stations_filtered |-> Len(stations) - Len(final),
                   route_filtered |->
                      IF route_filtering_enabled THEN route_filtered_count ELSE 0,
                   unreachable_filtered |->
                      IF should_filter_unreachable
                      THEN unreachable_filtered_count ELSE 0,
                   reachable_stations |-> Len(Reachable(scored_stations)),
                   error |-> ""]>>
    /\ pc' = "Done"
    /\ UNCHANGED <<user_context, stations, max_recommendations, idx,
                   route_filtering_enabled, should_filter_unreachable,
                   route_filtered_count, unreachable_filtered_count,
                   skipped_count, rejected, CallVars>>

Next ==
    \/ ReturnNoStations
    \/ ReturnError
    \/ StartRun
    \/ SkipInvalidLocation
    \/ SkipOnError
    \/ FilterByRoute
    \/ FilterUnreachable
    \/ AppendRecommendation
    \/ RankOrFallback
    \/ ReturnRecommendations

Spec == Init /\ [][Next]_vars

Done == pc = "Done"
Recs == result[1].recommendations

\* the run returned for a request whose urgency is one of the strings
Returned == Done /\ user_context.urgency # PyNone

----------------------------------------------------------------------------
(* Claims about get_enhanced_recommendations (specification Spec)          *)

Positions == 1..Len(Recs)

\* the route filter is on for the run
Filtering == pc # "Init" /\ route_filtering_enabled

\* the route analysis and the score the loop computes for a candidate
RouteOf(station) ==
    IF Filtering
    THEN RouteAnalysis(get_city_coordinates(user_context.destination_city),
                       station, user_context)
    ELSE NoRoute

UnfilteredScore(station) ==
    ScoreAnalysis(station, user_context, Filtering, RouteOf(station)).total_score

\* the candidate has a location and passes the route filter (or none is applied)
PassesRoute(station) ==
    station.has_location /\ (Filtering => RouteOf(station).is_along_route)

\* the energy model's verdict on a candidate that has a location
EnergyReachable(station) ==
    calculate_energy_consumption(station.distance, user_context.ac_status,
                                 ClampPassengers(user_context.passengers),
                                 user_context.terrain,
                                 ClampBattery(user_context.battery_percentage)).is_reachable

StationOf(id) == CHOOSE st \in StationCatalogue : st.id = id

\* the place of a station in the candidate list
PlaceOf(id) == CHOOSE k \in 1..Len(stations) : stations[k].id = id

\* C1: when shouldFilterUnreachable is true, at least one candidate exists and
\* every candidate is unreachable (each with a location and along the route),
\* the returned list is non-empty, every entry is flagged as a fallback, and
\* each score is half of the station's score without unreachable filtering.
C1_HalvedFallback ==
    (/\ Returned
     /\ stations # <<>>
     /\ should_filter_unreachable
     /\ \A k \in 1..Len(stations) :
            PassesRoute(stations[k]) /\ ~EnergyReachable(stations[k]))
    => /\ Recs # <<>>
       /\ \A i \in Positions :
            /\ Recs[i].fallback_recommendation
            /\ Recs[i].score = (UnfilteredScore(StationOf(Recs[i].id)) * 5) \div 10

\* C2: when the destination resolves to coordinates, no station the route
\* filter decided not along the route is among the returned recommendations.
C2_RouteRejectedNeverReturned ==
    (Returned /\ route_filtering_enabled)
    => \A i \in Positions : Recs[i].id \notin rejected

\* C3: the returned list is sorted non-increasing by score, in the normal
\* pass and in the degraded passes.
C3_SortedByScore ==
    Returned => \A i, j \in Positions : i < j => Recs[i].score >= Recs[j].score

C5_NonEmpty ==
    (/\ Returned
     /\ max_recommendations >= 1
     /\ \E k \in 1..Len(stations) : PassesRoute(stations[k]))
    => Recs # <<>>

\* C6: shouldFilterUnreachable holds exactly when battery <= 30 or urgency is
\* high or emergency or the flag is set; when it holds and at least one
\* candidate is reachable, no unreachable station is returned and no returned
\* entry is flagged as a fallback.
C6_FilterDecision ==
    (\/ pc \in {"Scoring", "RankingOrFallback"}
     \/ Done /\ stations # <<>> /\ result[1].error = "")
    => (should_filter_unreachable <=>
            \/ user_context.battery_percentage <= 30
            \/ user_context.urgency \in {"high", "High", "emergency", "EMERGENCY"}
            \/ user_context.filter_unreachable)

C6_UnreachableFiltered ==
    /\ C6_FilterDecision
    /\ (/\ Returned
        /\ should_filter_unreachable
        /\ \E k \in 1..Len(stations) :
              stations[k].has_location /\ EnergyReachable(stations[k]))
       => \A i \in Positions :
            /\ EnergyReachable(StationOf(Recs[i].id))
            /\ ~Recs[i].fallback_recommendation

\* the engine as a function of its inputs: the entries the loop appends for a
\* candidate list, in order (lines 664-817)
RECURSIVE ScoredFrom(_, _, _)
ScoredFrom(list, ctx, destination) ==
    IF list = <<>> THEN <<>>
    ELSE LET station == Head(list)
             has_route == destination # "None"
             route_analysis == IF has_route
                               THEN RouteAnalysis(destination, station, ctx)
                               ELSE NoRoute
             score_analysis ==
                ScoreAnalysis(station, ctx, has_route, route_analysis)
             appended ==
                /\ station.has_location
                /\ ~RaisesInLoop(ctx)
                /\ has_route => route_analysis.is_along_route
                /\ ~(ShouldFilterUnreachable(ctx) /\ ~score_analysis.is_reachable)
                /\ ~EntryRaises(score_analysis)
         IN  (IF appended
              THEN <<Recommendation(station, score_analysis, has_route,
                                    route_analysis)>>
              ELSE <<>>)
             \o ScoredFrom(Tail(list), ctx, destination)

\* the recommendations get_enhanced_recommendations returns for a candidate
\* list, a context and a maximum (lines 608-617, 819-820, 837-878, 913-923)
EngineRecommendations(list, ctx, max_rec) ==
    IF list = <<>> \/ RaisesAtStart(ctx) THEN <<>>
    ELSE LET destination ==
                IF ctx.destination_city # ""
                THEN get_city_coordinates(ctx.destination_city) ELSE "None"
             ranked == SortByScore(ScoredFrom(list, ctx, destination))
         IN  Take(WithBasicFallback(ranked, list, max_rec, ctx.battery_percentage),
                  max_rec)

\* C15: get_enhanced_recommendations never raises: whatever the input, the run
\* goes on until it returns one result object holding a recommendations list
\* and metadata; an empty candidate list yields an empty recommendations list
\* with zero stations processed and no error.
ResultObject ==
    /\ Len(result) = 1
    /\ DOMAIN Recs = 1..Len(Recs)
    /\ {"algorithm_used", "processing_time_ms", "total_stations_processed"}
          \subseteq DOMAIN result[1]
    /\ stations = <<>> =>
          /\ Recs = <<>>
          /\ result[1].total_stations_processed = 0
          /\ result[1].error = ""

\* some statement of the body is next: the early return, the outer handler,
\* the start of the run, one of the five ways through the loop body, the
\* ranking, or the return
CanStep ==
    \/ pc = "Init" /\ stations = <<>>
    \/ CaughtOutside
    \/ pc = "Init" /\ stations # <<>> /\ ~RaisesAtStart(user_context)
    \/ InLoop /\ ~stations[idx].has_location
    \/ InLoop /\ stations[idx].has_location /\ RaisesInLoop(user_context)
    \/ /\ InLoop /\ stations[idx].has_location /\ ~RaisesInLoop(user_context)
       /\ \/ route_filtering_enabled /\ ~CurrentRoute.is_along_route
          \/ /\ route_filtering_enabled => CurrentRoute.is_along_route
             /\ \/ should_filter_unreachable /\ ~CurrentScore.is_reachable
                \/ ~(should_filter_unreachable /\ ~CurrentScore.is_reachable)
    \/ pc = "Scoring" /\ idx > Len(stations)
    \/ pc = "RankingOrFallback"

C15_AlwaysAResult ==
    /\ ~Done => (result = <<>> /\ CanStep)
    /\ Done => ResultObject

\* an exception of the body (None.lower()) came back as a result object
C15_Witness ==
    /\ Done
    /\ stations # <<>>
    /\ user_context.urgency = PyNone
    /\ result[1].error # ""
    /\ Recs = <<>>

\* destination names that are no city of the table and match none
UnknownCities == {"Atlantis"}

\* C16: when the destination city name cannot be resolved, no route filtering
\* is applied: the run returns the stations, order and scores of the same
\* request without a destination, no entry carries a route analysis, and the
\* route-filtered count is 0.
C16_UnresolvedDestinationUnfiltered ==
    (Done /\ user_context.destination_city \in UnknownCities)
    => /\ Recs = EngineRecommendations(
                    stations, [user_context EXCEPT !.destination_city = ""],
                    max_recommendations)
       /\ \A i \in Positions : ~Recs[i].has_route_analysis
       /\ result[1].route_filtered = 0
       /\ rejected = {}

\* a station behind the origin, which a trip to Pokhara would pass over, is
\* ranked and returned for the unknown destination
C16_Witness ==
    /\ Done
    /\ user_context.destination_city \in UnknownCities
    /\ \E i \in Positions :
          /\ ~Recs[i].fallback_recommendation
          /\ StationOf(Recs[i].id).bearing = 113

\* C17: two runs on identical (origin, candidates, context) inputs return the
\* same stations in the same order with identical scores: the returned list
\* is a function of the inputs, whatever the clock gives.
C17_Deterministic ==
    Done => Recs = EngineRecommendations(stations, user_context,
                                         max_recommendations)

\* two stations ranked against their input order, the later clock reading
C17_Witness ==
    /\ Done
    /\ Len(Recs) = 2
    /\ Recs[1].score > Recs[2].score
    /\ PlaceOf(Recs[1].id) > PlaceOf(Recs[2].id)
    /\ result[1].processing_time_ms = 2

\* C18: the returned list has length min(max_recommendations, number of ranked
\* entries) and is the highest-ranked prefix of the ranked entries.
C18_TopPrefix ==
    Done =>
        /\ Len(Recs) = Min(max_recommendations, Len(scored_stations))
        /\ Recs = SubSeq(scored_stations, 1, Len(Recs))
        /\ \A i \in Positions : \A j \in (Len(Recs) + 1)..Len(scored_stations) :
              Recs[i].score >= scored_stations[j].score

\* two entries were ranked and the maximum is 1: the better one is returned
C18_Witness ==
    /\ Done
    /\ max_recommendations = 1
    /\ Len(scored_stations) = 2
    /\ Len(Recs) = 1
    /\ Recs[1].score > scored_stations[2].score

\* computing the score of this candidate raises for a reason of its own
\* (the request's urgency is a string)
ScoreErrorAt(station) ==
    /\ station.has_location
    /\ PassesRoute(station)
    /\ ScoringRaises(normalize_station_data(station), user_context)

\* the recommendations for the stations of Keep, in the order returned
RecsOf(list, Keep) == SelectSeq(list, LAMBDA r : r.id \in Keep)

\* C22: when computing the score of one station raises an error, that
\* station is still ranked and returned with the distance-only fallback
\* score max(0, 1 - distance/50) instead of being dropped, and the other
\* stations are unaffected.
C22_ScoreErrorKeepsStation ==
    (Returned /\ max_recommendations >= Len(stations))
    => \A k \in 1..Len(stations) :
          ScoreErrorAt(stations[k])
          => /\ \E i \in Positions :
                   /\ Recs[i].id = stations[k].id
                   /\ Recs[i].score = DistanceScore(stations[k].distance)
             /\ LET others == SelectSeq(stations, LAMBDA st : st.id # stations[k].id)
                IN  others # <<>> =>
                      RecsOf(Recs, {others[j].id : j \in 1..Len(others)})
                        = EngineRecommendations(others, user_context,
                                                max_recommendations)

\* C24: every returned recommendation whose is_reachable field is true has
\* total estimated consumption <= usable energy for the request's battery
\* level; the field is never true for an energetically unreachable station,
\* in any result path.
C24_ReachableFlagIsSound ==
    Returned
    => \A i \in Positions :
          Recs[i].is_reachable
          => /\ Recs[i].total_consumption_kwh <= Recs[i].usable_energy_kwh
             /\ EnergyReachable(StationOf(Recs[i].id))

\* the metadata of the returned object
Metadata == result[1]

\* the candidates the loop appended (lines 664-813), before any fallback
AppendedByLoop ==
    ScoredFrom(stations, user_context,
               IF route_filtering_enabled
               THEN get_city_coordinates(user_context.destination_city)
               ELSE "None")

\* C28: in the metadata returned by get_enhanced_recommendations a candidate
\* is counted in at most one of route_filtered and unreachable_filtered, and
\* stations_filtered equals route_filtered + unreachable_filtered + the
\* number of candidates skipped for an invalid location or a processing
\* error, for every input.
C28_FilterCountsAddUp ==
    Returned
    => /\ Metadata.route_filtered + Metadata.unreachable_filtered
             + skipped_count + Len(AppendedByLoop) = Len(stations)
       /\ Metadata.stations_filtered =
             Metadata.route_filtered + Metadata.unreachable_filtered
                + skipped_count

----------------------------------------------------------------------------
(* One call of calculate_enhanced_score (specification SpecScore)          *)

\* the orchestrator at rest
NoRun ==
    /\ user_context = <<>>
    /\ stations = <<>>
    /\ max_recommendations = DefaultMaxRecommendations
    /\ idx = 1
    /\ route_filtering_enabled = FALSE
    /\ should_filter_unreachable = FALSE
    /\ scored_stations = <<>>
    /\ route_filtered_count = 0
    /\ unreachable_filtered_count = 0
    /\ skipped_count = 0
    /\ rejected = {}
    /\ result = <<>>

RunVars == <<user_context, stations, max_recommendations, idx,
             route_filtering_enabled, should_filter_unreachable,
             scored_stations, route_filtered_count, unreachable_filtered_count,
             skipped_count, rejected, result>>

\* normalized station records: available <= total slots, 0..5 stars, any price
ScoredStations ==
    { [id |-> 1, availability |-> a[1], total_slots |-> a[2],
       connector_types |-> {"CCS"}, pricing |-> p, rating |-> r] :
        a \in {<<0, 0>>, <<1, 4>>, <<4, 4>>}, p \in {5, 20, 40}, r \in {0, 40, 50} }

ScoreContexts ==
    { [battery_percentage |-> b, urgency |-> u, ac_status |-> ac,
       passengers |-> 2, terrain |-> t, plug_type |-> plug,
       driving_mode |-> eta[1], traffic_condition |-> eta[2], weather |-> eta[3]] :
        b \in {0, 20, 40, 60, 80, 150},
        u \in {"low", "medium", "High", "emergency", "urgent"},
        ac \in BOOLEAN, t \in {"flat", "steep"}, plug \in {"", "CHAdeMO"},
        eta \in {<<"random", "light", "clear">>, <<"economy", "heavy", "snow">>} }

ScoreDistances == {0, 20, 300, 600, 1500}

InitScore ==
    /\ pc = "Score"
    /\ NoRun
    /\ NoBooking
    /\ sc_in \in [station : ScoredStations, distance : ScoreDistances,
                  ctx : ScoreContexts]
    /\ sc_out = <<>>
    /\ en_in = <<>>
    /\ en_out = <<>>
    /\ st_in = <<>>
    /\ st_out = <<>>
    /\ NoRequest

CalculateEnhancedScore ==
    /\ pc = "Score"
    /\ sc_out' = <<calculate_enhanced_score(sc_in.station, sc_in.distance, sc_in.ctx)>>
    /\ pc' = "ScoreDone"
    /\ UNCHANGED <<sc_in, en_in, en_out, st_in, st_out, HandlerVars>>
    /\ UNCHANGED RunVars
    /\ UNCHANGED BookingVars

NextScore == CalculateEnhancedScore

SpecScore == InitScore /\ [][NextScore]_vars

Scored == pc = "ScoreDone"

\* C7: every sub-score (distance, availability, energy efficiency, urgency,
\* price, plug compatibility, rating, ETA) and the total score lie in [0, 1].
C7_ScoresInUnitInterval ==
    Scored =>
        /\ \A k \in WeightKeys \cup {"eta"} :
              sc_out[1].scores[k] >= 0 /\ sc_out[1].scores[k] <= Scale
        /\ sc_out[1].total_score >= 0 /\ sc_out[1].total_score <= Scale

\* C8: for the emergency tier the weights used give weight 0 to price, plug
\* compatibility and rating at every battery level.
C8_EmergencyZeroWeights ==
    (Scored /\ Lower(sc_in.ctx.urgency) = "emergency")
    => /\ sc_out[1].weights_used["price"].num = 0
       /\ sc_out[1].weights_used["plug_compatibility"].num = 0
       /\ sc_out[1].weights_used["rating"].num = 0

\* C9: for every urgency tier (an unknown one too) and every battery level
\* the seven weights of weights_used sum to 1: they are fractions of one
\* positive total, and their numerators add up to it.
C9_WeightsSumToOne ==
    Scored =>
        LET w == sc_out[1].weights_used
            nums == [k \in WeightKeys |-> w[k].num]
        IN  /\ DOMAIN w = WeightKeys
            /\ \A k \in WeightKeys : w[k].den = w["distance"].den /\ w[k].num >= 0
            /\ w["distance"].den > 0
            /\ SumOver(nums, WeightKeys) = w["distance"].den

\* an unknown tier at critical battery: the adjusted base weights no longer
\* sum to 1 and are renormalized
C9_Witness ==
    /\ Scored
    /\ sc_in.ctx.urgency = "urgent"
    /\ sc_in.ctx.battery_percentage <= 20
    /\ sc_out[1].weights_used["distance"].den # 1000

\* C11: during scoring a station is reported reachable exactly when its total
\* consumption is at most the usable energy (battery / 100) * 60 kWh * 0.8,
\* the battery level first clamped to [1, 100], for every battery input.
C11_ReachableIffWithinUsable ==
    Scored =>
        LET given == sc_in.ctx.battery_percentage
            clamped == IF given < 1 THEN 1 ELSE IF given > 100 THEN 100 ELSE given
            \* (clamped / 100) * 60 * 0.8 kWh, in 1e-4 kWh
            usable == (clamped * 60 * 8 * 1000) \div 100
            total == sc_out[1].energy_analysis.total_consumption
        IN  /\ sc_out[1].energy_analysis.usable_energy = usable
            /\ sc_out[1].is_reachable <=> total <= usable
            /\ sc_out[1].energy_analysis.is_reachable = sc_out[1].is_reachable

\* a battery input of 0 is scored as 1 %: a station 2 km away is reachable
C11_Witness ==
    /\ Scored
    /\ sc_in.ctx.battery_percentage = 0
    /\ sc_in.distance > 0
    /\ sc_out[1].is_reachable

\* C29: for a station that the energy analysis marks unreachable, the
\* energy-efficiency sub-score after the battery-tier adjustment is exactly
\* 0 at every battery level: the multiplicative penalties of the 21-40 %
\* and 41-60 % tiers act on a raw score that is already 0.
C29_UnreachableScoresZero ==
    (Scored /\ ~sc_out[1].energy_analysis.is_reachable)
    => sc_out[1].scores["energy_efficiency"] = 0

\* an unreachable station in the 41-60 % tier, which halves the raw score:
\* 150 km at 60 %, within the whole battery and beyond the usable 80 %
C29_Witness ==
    /\ Scored
    /\ ~sc_out[1].energy_analysis.is_reachable
    /\ sc_in.ctx.battery_percentage = 60
    /\ sc_out[1].energy_analysis.total_consumption
          < (sc_out[1].energy_analysis.usable_energy * 10) \div 8
    /\ sc_out[1].scores["energy_efficiency"] = 0

\* the fraction a is at least the fraction b
FractionAtLeast(a, b) == a.num * b.den >= b.num * a.den

\* battery levels of the mid range, where the weights are the tier's own
MidBatteryLevels == {41, 60, 79}

\* C23: at critical battery (<= 20 %) the normalized distance weight and the
\* normalized energy_efficiency weight used for scoring are each at least
\* as large as the weights used at a mid battery level (41-79 %) for the
\* same urgency tier, for every tier.
C23_CriticalBatteryRaisesWeights ==
    (Scored /\ ClampBattery(sc_in.ctx.battery_percentage) <= 20)
    => \A mid \in MidBatteryLevels :
          LET critical == sc_out[1].weights_used
              usual == WeightsUsed(sc_in.ctx.urgency, mid)
          IN  /\ FractionAtLeast(critical["distance"], usual["distance"])
              /\ FractionAtLeast(critical["energy_efficiency"],
                                 usual["energy_efficiency"])

----------------------------------------------------------------------------
(* Two calls of calculate_energy_consumption (specification SpecEnergy)    *)

EnergyInputs ==
    [distance : {0, 1, 2, 50, 300}, ac_status : BOOLEAN, passengers : {1, 2, 8},
     terrain : {"flat", "hilly", "steep", "Steep"}, battery_percentage : {50}]

EnergyFields == {"distance", "ac_status", "passengers", "terrain",
                 "battery_percentage"}

\* the two inputs differ in at most one argument
OneArgumentApart(a, b) ==
    \E f \in EnergyFields : \A g \in EnergyFields \ {f} : a[g] = b[g]

InitEnergy ==
    /\ pc = "Energy"
    /\ NoRun
    /\ NoBooking
    /\ sc_in = <<>>
    /\ sc_out = <<>>
    /\ en_in \in {p \in EnergyInputs \X EnergyInputs : OneArgumentApart(p[1], p[2])}
    /\ en_out = <<>>
    /\ st_in = <<>>
    /\ st_out = <<>>
    /\ NoRequest

EnergyOf(a) ==
    calculate_energy_consumption(a.distance, a.ac_status, a.passengers, a.terrain,
                                 a.battery_percentage)

CalculateEnergyConsumption ==
    /\ pc = "Energy"
    /\ en_out' = <<EnergyOf(en_in[1]), EnergyOf(en_in[2])>>
    /\ pc' = "EnergyDone"
    /\ UNCHANGED <<sc_in, sc_out, en_in, st_in, st_out, HandlerVars>>
    /\ UNCHANGED RunVars
    /\ UNCHANGED BookingVars

NextEnergy == CalculateEnergyConsumption

SpecEnergy == InitEnergy /\ [][NextEnergy]_vars

EnergyDone == pc = "EnergyDone"

\* the second call has the AC on, the first off; or the terrain one class up
AcFlipsOn == ~en_in[1].ac_status /\ en_in[2].ac_status
TerrainClass(t) ==
    CASE Lower(t) = "flat" -> 1 [] Lower(t) = "hilly" -> 2 [] Lower(t) = "steep" -> 3
TerrainSteeper == TerrainClass(en_in[1].terrain) < TerrainClass(en_in[2].terrain)
FartherOrFuller ==
    \/ en_in[1].distance < en_in[2].distance
    \/ en_in[1].passengers < en_in[2].passengers

\* C10 (as claimed): the total is non-decreasing in distance and in passenger
\* count, and strictly increases when the AC flips off to on or the terrain
\* moves flat to hilly to steep, for every fixed value of the other inputs.
C10_MonotoneStrict ==
    EnergyDone =>
        /\ FartherOrFuller
              => en_out[1].total_consumption <= en_out[2].total_consumption
        /\ (AcFlipsOn \/ TerrainSteeper)
              => en_out[1].total_consumption < en_out[2].total_consumption

\* C10 (amended): the total is non-decreasing in distance and in passenger
\* count; it strictly increases when the AC flips off to on or the terrain
\* moves flat to hilly to steep provided the distance is positive (at distance
\* 0 it is 0 either way); the reported total_consumption_kwh, rounded to two
\* decimals, is non-decreasing in all four.
C10_MonotoneStrictWhenMoving ==
    EnergyDone =>
        /\ FartherOrFuller
              => en_out[1].total_consumption <= en_out[2].total_consumption
        /\ (AcFlipsOn \/ TerrainSteeper)
              => /\ en_out[1].total_consumption <= en_out[2].total_consumption
                 /\ en_in[1].distance > 0
                       => en_out[1].total_consumption < en_out[2].total_consumption
        /\ (FartherOrFuller \/ AcFlipsOn \/ TerrainSteeper)
              => en_out[1].total_consumption_kwh <= en_out[2].total_consumption_kwh

\* the AC flips on over a short positive distance: the total grows, the
\* reported two-decimal value does not
C10_Witness ==
    /\ EnergyDone
    /\ AcFlipsOn
    /\ en_in[1].distance > 0
    /\ en_out[1].total_consumption < en_out[2].total_consumption
    /\ en_out[1].total_consumption_kwh = en_out[2].total_consumption_kwh

----------------------------------------------------------------------------
(* One candidate through the loop body, lines 664-772 (specification       *)
(* SpecStation)                                                            *)

\* where a station lies on a trip from Kathmandu: the city its dist_to_dest
\* is measured to, its distance from the origin, its distance to that city and
\* its bearing from the origin (tenths of a km, degrees)
PlaceAt(toward, distance, dist_to_dest, bearing) ==
    [toward |-> toward, has_location |-> TRUE, distance |-> distance,
     dist_to_dest |-> dist_to_dest, bearing |-> bearing]

Placements ==
    { PlaceAt("Pokhara", 1424, 0, 293),     \* at the destination
      PlaceAt("Pokhara", 712, 712, 293),    \* half way, on the line
      PlaceAt("Pokhara", 30, 1394, 293),    \* 3 km out, on the line
      PlaceAt("Pokhara", 0, 1424, 0),       \* at the origin
      PlaceAt("Pokhara", 700, 734, 300),    \* 1 km of detour
      PlaceAt("Pokhara", 400, 1479, 203),   \* 40 km sideways
      PlaceAt("Pokhara", 30, 1419, 213),    \* 3 km out, 80 degrees off the line
      PlaceAt("Pokhara", 30, 1429, 193),    \* 3 km out, 100 degrees off the line
      PlaceAt("Pokhara", 30, 1454, 113),    \* 3 km behind the origin
      PlaceAt("Pokhara", 450, 1874, 113),   \* 45 km behind: 90 km of detour
      PlaceAt("Pokhara", 600, 2024, 113),   \* 60 km behind
      PlaceAt("Kathmandu", 0, 0, 0),        \* origin, station and destination in one place
      PlaceAt("Kathmandu", 30, 30, 113) }

\* a charger of the raw JSON format, and one as the database stores it
Charger(type, available) == [type |-> type, available |-> available]
DbCharger(type, status) == [type |-> type, status |-> status]

\* the station's data in the formats the engine is handed
StationData ==
    { \* the ChargingStation model format
      [id |-> 1, available_slots |-> 3, total_slots |-> 4, pricing_per_kwh |-> 12,
       connector_types |-> {"CCS"}, rating |-> 40],
      [id |-> 2, available_slots |-> 0, total_slots |-> 0, pricing_per_kwh |-> 30,
       connector_types |-> {}, rating |-> 40],
      \* the raw JSON format
      [id |-> 3, pricing |-> PyStr("NPR 12 per kWh"),
       chargers |-> <<Charger("CCS", TRUE), Charger("Type2", FALSE)>>],
      [id |-> 4, pricing |-> PyStr("NPR 30 per kWh"), chargers |-> <<>>],
      \* the model format as ChargingStation.get_all returns it
      [id |-> 5, available_slots |-> 3, total_slots |-> 4, pricing_per_kwh |-> 12,
       connector_types |-> {"CCS"}, rating |-> 40,
       chargers |-> <<DbCharger("CCS", "available"), DbCharger("CCS", "available"),
                      DbCharger("CCS", "available"), DbCharger("CCS", "occupied")>>],
      \* the record the /get-recommendations handler builds
      [id |-> 6, availability |-> 3, total_slots |-> 4, pricing |-> PyNum(12),
       connector_types |-> {"CCS"}, rating |-> 40,
       chargers |-> <<DbCharger("CCS", "available"), DbCharger("CCS", "available"),
                      DbCharger("CCS", "available"), DbCharger("CCS", "occupied")>>] }

DetourBudgets == {0, 1, 20}

StationContexts ==
    { [battery_percentage |-> 50, urgency |-> u, filter_unreachable |-> FALSE,
       destination_city |-> c, max_detour_km |-> m, ac_status |-> FALSE,
       passengers |-> 1, terrain |-> "flat", plug_type |-> "",
       driving_mode |-> "random", traffic_condition |-> "light",
       weather |-> "clear"] :
        u \in {"low", "medium", "High", "emergency", "urgent"},
        c \in {"", "pokhara", "Kathmandu"}, m \in DetourBudgets }

\* a request and a candidate placed on its trip
StationInputs ==
    { i \in [place : Placements, data : StationData, ctx : StationContexts] :
        i.ctx.destination_city # ""
            => get_city_coordinates(i.ctx.destination_city) = i.place.toward }

InitStation ==
    /\ pc = "Station"
    /\ NoRun
    /\ NoBooking
    /\ sc_in = <<>>
    /\ sc_out = <<>>
    /\ en_in = <<>>
    /\ en_out = <<>>
    /\ st_in \in StationInputs
    /\ st_out = <<>>
    /\ NoRequest

\* lines 664-772 for one candidate: the route analysis, the normalized record,
\* the score analysis and what the loop does with the candidate
ProcessStation ==
    /\ pc = "Station"
    /\ LET station == st_in.place @@ st_in.data
           ctx == st_in.ctx
           destination == IF ctx.destination_city # ""
                          THEN get_city_coordinates(ctx.destination_city)
                          ELSE "None"
           has_route == destination # "None"
           route_analysis == IF has_route
                             THEN RouteAnalysis(destination, station, ctx)
                             ELSE NoRoute
           score_analysis == ScoreAnalysis(station, ctx, has_route, route_analysis)
       IN  st_out' =
             <<[has_route |-> has_route,
                route_analysis |-> route_analysis,
                normalized_station |-> normalize_station_data(station),
                score_analysis |-> score_analysis,
                decision |->
                   IF has_route /\ ~route_analysis.is_along_route
                   THEN "route_filtered"
                   ELSE IF ShouldFilterUnreachable(ctx)
                           /\ ~score_analysis.is_reachable
                   THEN "unreachable_filtered"
                   ELSE "appended"]>>
    /\ pc' = "StationDone"
    /\ UNCHANGED <<sc_in, sc_out, en_in, en_out, st_in, HandlerVars>>
    /\ UNCHANGED RunVars
    /\ UNCHANGED BookingVars

NextStation == ProcessStation

SpecStation == InitStation /\ [][NextStation]_vars

StationDone == pc = "StationDone"

\* the candidate went through the route filter
RouteFiltering == StationDone /\ st_out[1].has_route
Route == st_out[1].route_analysis

\* C12: a station with detour 0 and angle difference 0 relative to the
\* origin-destination line is decided is_along_route = true by the route
\* filter, for every urgency tier and every non-negative detour budget.
C12_OnLineIsAlongRoute ==
    (/\ RouteFiltering
     /\ Route.detour_distance = 0
     /\ Route.angle_difference = 0)
    => /\ Route.is_along_route
       /\ st_out[1].decision # "route_filtered"

\* a station on the line passes the strictest tier with a budget of 0
C12_Witness ==
    /\ RouteFiltering
    /\ st_in.place.distance > 0
    /\ Route.detour_distance = 0
    /\ Route.angle_difference = 0
    /\ st_in.ctx.urgency = "low"
    /\ st_in.ctx.max_detour_km = 0
    /\ Route.is_along_route

\* C13: a station whose detour exceeds the urgency-adjusted budget (90 km
\* against 20 km) is excluded at medium urgency; at emergency urgency a station
\* is admitted whenever it is within 50 km of the origin, whatever its detour
\* and its bearing difference.
C13_DetourExcludedEmergencyAdmitted ==
    RouteFiltering =>
        /\ (/\ st_in.ctx.urgency = "medium"
            /\ Route.detour_distance > st_in.ctx.max_detour_km * 10)
           => /\ ~Route.is_along_route
              /\ st_out[1].decision = "route_filtered"
        /\ (/\ st_in.ctx.urgency = "emergency"
            /\ st_in.place.distance <= 500)
           => /\ Route.is_along_route
              /\ st_out[1].decision # "route_filtered"

\* 45 km behind the origin, 90 km of detour against a budget of 20 km (40 km
\* at emergency urgency), facing away from the destination: admitted
C13_Witness ==
    /\ RouteFiltering
    /\ st_in.ctx.urgency = "emergency"
    /\ st_in.ctx.max_detour_km = 20
    /\ st_in.place.distance = 450
    /\ Route.detour_distance = 900
    /\ Route.angle_difference = 180
    /\ Route.is_along_route

\* the record's own slot counts and price: the fields that carry them, or the
\* chargers and the pricing text of a record that has no such fields
OwnAvailableSlots ==
    LET d == st_in.data
    IN  IF "available_slots" \in DOMAIN d THEN d.available_slots
        ELSE IF "availability" \in DOMAIN d THEN d.availability
        ELSE Len(SelectSeq(d.chargers, LAMBDA c : c.available))
OwnTotalSlots ==
    LET d == st_in.data
    IN  IF "total_slots" \in DOMAIN d THEN d.total_slots ELSE Len(d.chargers)
OwnPrice ==
    LET d == st_in.data
    IN  IF "pricing_per_kwh" \in DOMAIN d THEN d.pricing_per_kwh
        ELSE IF "num" \in DOMAIN d.pricing THEN d.pricing.num
        ELSE ReSearchDigits(d.pricing.str)[1]

\* C14: for every station record handed to the engine, in either record
\* format, the availability and price sub-scores are computed from the
\* record's own available-slot count, total-slot count and price
\* (availability score = available slots / max(total slots, 1)).
C14_SubScoresFromRecord ==
    (StationDone /\ st_out[1].decision # "route_filtered") =>
        /\ st_out[1].score_analysis.scores["availability"]
              = (OwnAvailableSlots * Scale) \div Max(OwnTotalSlots, 1)
        /\ st_out[1].score_analysis.scores["price"]
              = Max(0, Scale - ((OwnPrice - 10) * Scale) \div 25)

\* C19: no input raises a division error: route_efficiency is 0 when the
\* via-station distance is 0 and direct / via otherwise, and the availability
\* score of a station without slots is 0.
C19_NoDivisionError ==
    StationDone =>
        LET direct == city_coords[st_in.place.toward].direct_distance
            via == st_in.place.distance + st_in.place.dist_to_dest
            total_slots == st_out[1].normalized_station.total_slots
            availability == st_out[1].normalized_station.availability
        IN  /\ st_out[1].has_route =>
                 Route.route_efficiency
                    = IF via = 0 THEN 0 ELSE FixDiv(direct, via)
            /\ st_out[1].score_analysis.scores["availability"]
                  = IF total_slots = 0 THEN 0
                    ELSE (availability * Scale) \div total_slots

\* origin, station and destination in one place, and a station without slots
C19_Witness ==
    /\ RouteFiltering
    /\ st_in.place.distance + st_in.place.dist_to_dest = 0
    /\ st_out[1].normalized_station.total_slots = 0
    /\ Route.route_efficiency = 0
    /\ st_out[1].score_analysis.scores["availability"] = 0


\* the order of the urgency tiers
UrgencyRank == [low |-> 1, medium |-> 2, high |-> 3, emergency |-> 4]

\* the route filter's verdict on the candidate of st_in at another urgency
AdmittedAt(urgency) ==
    RouteAnalysis(get_city_coordinates(st_in.ctx.destination_city),
                  st_in.place @@ st_in.data,
                  [st_in.ctx EXCEPT !.urgency = urgency]).is_along_route

\* C30: the route filter is monotone in urgency: for fixed origin,
\* destination, station and base detour budget, a station admitted at one
\* urgency tier is admitted at every higher tier in the order
\* low < medium < high < emergency.
C30_RouteFilterMonotone ==
    (/\ RouteFiltering
     /\ Lower(st_in.ctx.urgency) \in DOMAIN UrgencyRank
     /\ st_out[1].decision # "route_filtered")
    => \A higher \in DOMAIN UrgencyRank :
          UrgencyRank[higher] > UrgencyRank[Lower(st_in.ctx.urgency)]
          => AdmittedAt(higher)

\* a station 3 km out and 100 degrees off the line: admitted at high by the
\* 108 degree limit, and not at medium
C30_Witness ==
    /\ RouteFiltering
    /\ st_in.ctx.urgency = "High"
    /\ st_out[1].decision # "route_filtered"
    /\ Route.angle_difference = 100
    /\ ~AdmittedAt("medium")
    /\ AdmittedAt("emergency")

----------------------------------------------------------------------------
(* The /get-recommendations handler after the engine's return,             *)
(* recommendation_routes.py lines 267-396 (specification SpecHandler)      *)

\* an entry of the engine's list as the handler reads it; location_ok: the
\* entry's location is a list of two values
EngineEntry(id, score, location_ok) ==
    [id |-> id, score |-> score, distance |-> 30, location_ok |-> location_ok,
     connector_types |-> {"CCS"}]

\* the lists the engine returns to the handler: at most max_recommendations
\* entries, ranked
RankedLists ==
    LET ranking1 == <<EngineEntry(3, 9000, TRUE), EngineEntry(1, 8000, TRUE),
                      EngineEntry(4, 8000, TRUE), EngineEntry(2, 5000, TRUE),
                      EngineEntry(5, 1000, TRUE)>>
        ranking2 == <<EngineEntry(2, 7000, TRUE), EngineEntry(5, 6000, FALSE),
                      EngineEntry(1, 6000, TRUE), EngineEntry(3, 1000, TRUE)>>
    IN  { SubSeq(r, 1, n) : r \in {ranking1}, n \in 0..DefaultMaxRecommendations }
        \cup { SubSeq(r, 1, n) : r \in {ranking2}, n \in 1..4 }

\* what Booking.get_station_real_time_availability and
\* route_service.get_route_to_station do when they are called
AvailabilityOutcomes == {"ok", "raises"}
PathOutcomes == {"success", "failed", "raises"}

\* lines 276-299: the availability by charger type, {} when the lookup raises
ChargerAvailability(rec, availability) ==
    IF availability = "ok" THEN [type \in rec.connector_types |-> "slots"]
    ELSE <<>>

\* lines 273-334: an entry of the top 3 with its availability and its route
WithRoute(rec, availability, path) ==
    [charger_availability |-> ChargerAvailability(rec, availability),
     path_failed |-> ~rec.location_ok \/ path # "success",
     route |->
        IF ~rec.location_ok
        THEN [error |-> "Invalid station location", distance_km |-> rec.distance,
              estimated_time |-> "Unknown"]
        ELSE IF path = "success"
        THEN [waypoints |-> <<"origin", "station">>, distance_km |-> rec.distance,
              estimated_time |-> "from the route", instructions |-> <<>>]
        ELSE IF path = "failed"
        THEN [error |-> "Route calculation failed", distance_km |-> rec.distance,
              estimated_time |-> "Unknown"]
        ELSE [error |-> "Route calculation error", distance_km |-> rec.distance,
              estimated_time |-> "Unknown"]]
    @@ rec

\* lines 345-376: an entry after the top 3, with its availability only
WithoutRoute(rec, availability) ==
    [charger_availability |-> ChargerAvailability(rec, availability),
     path_failed |-> FALSE,
     route |-> [distance_km |-> rec.distance,
                estimated_time |-> "Estimate unavailable"]]
    @@ rec

\* a variant that keeps only the entries whose route has waypoints
AppendDecorated(list, rec) ==
    IF "waypoints" \in DOMAIN rec.route THEN Append(list, rec) ELSE list

\* lines 341 and 377: enhanced_recommendations.append(rec)
AppendRec(list, rec) == Append(list, rec)

InitHandler ==
    /\ pc = "Enrich"
    /\ NoRun
    /\ NoBooking
    /\ sc_in = <<>> /\ sc_out = <<>> /\ en_in = <<>> /\ en_out = <<>>
    /\ st_in = <<>> /\ st_out = <<>>
    /\ recommendations \in RankedLists
    /\ enhanced_recommendations = <<>>
    /\ rec_idx = 1
    /\ response = <<>>

HandlerFrame ==
    /\ UNCHANGED <<sc_in, sc_out, en_in, en_out, st_in, st_out>>
    /\ UNCHANGED RunVars
    /\ UNCHANGED BookingVars

\* lines 271-341: one of the top 3
EnrichTopRecommendation ==
    /\ pc = "Enrich"
    /\ rec_idx <= Len(recommendations)
    /\ rec_idx <= 3
    /\ \E availability \in AvailabilityOutcomes, path \in PathOutcomes :
          enhanced_recommendations' =
             AppendRec(enhanced_recommendations,
                       WithRoute(recommendations[rec_idx], availability, path))
    /\ rec_idx' = rec_idx + 1
    /\ UNCHANGED <<pc, recommendations, response>>
    /\ HandlerFrame

\* lines 343-380: one of the remaining recommendations
EnrichRemainingRecommendation ==
    /\ pc = "Enrich"
    /\ rec_idx <= Len(recommendations)
    /\ rec_idx > 3
    /\ \E availability \in AvailabilityOutcomes :
          enhanced_recommendations' =
             AppendRec(enhanced_recommendations,
                       WithoutRoute(recommendations[rec_idx], availability))
    /\ rec_idx' = rec_idx + 1
    /\ UNCHANGED <<pc, recommendations, response>>
    /\ HandlerFrame

\* lines 384-396: the response
Respond ==
    /\ pc = "Enrich"
    /\ rec_idx > Len(recommendations)
    /\ response' = <<[success |-> TRUE,
                      recommendations |-> enhanced_recommendations,
                      recommendations_returned |-> Len(enhanced_recommendations)]>>
    /\ pc' = "Responded"
    /\ UNCHANGED <<recommendations, enhanced_recommendations, rec_idx>>
    /\ HandlerFrame

NextHandler ==
    \/ EnrichTopRecommendation
    \/ EnrichRemainingRecommendation
    \/ Respond

SpecHandler == InitHandler /\ [][NextHandler]_vars

Responded == pc = "Responded"
Sent == response[1].recommendations

\* C20: a failure of path enrichment for any subset of the top 3
\* recommendations leaves the response holding the same recommendations in
\* the order the engine ranked them, the failed ones without a decorated path.
C20_EnrichmentKeepsRanking ==
    Responded =>
        /\ Len(Sent) = Len(recommendations)
        /\ response[1].recommendations_returned = Len(recommendations)
        /\ \A i \in 1..Len(Sent) :
              /\ Sent[i].id = recommendations[i].id
              /\ Sent[i].score = recommendations[i].score
              /\ Sent[i].path_failed => "waypoints" \notin DOMAIN Sent[i].route
              /\ (i <= 3 /\ ~Sent[i].path_failed)
                    => "waypoints" \in DOMAIN Sent[i].route

\* five recommendations; the route of the first raised (so did its
\* availability lookup), the second got its path, the third's route failed
C20_Witness ==
    /\ Responded
    /\ Len(recommendations) = 5
    /\ Len(Sent) = 5
    /\ Sent[1].path_failed
    /\ Sent[1].route.error = "Route calculation error"
    /\ Sent[1].charger_availability = <<>>
    /\ ~Sent[2].path_failed
    /\ Sent[3].path_failed
    /\ Sent[3].route.error = "Route calculation failed"

----------------------------------------------------------------------------
(* The bookings collection (backend/models/booking.py) and the requests    *)
(* that read and write it (backend/routes/booking_routes.py,               *)
(* backend/routes/payment_routes.py, the cleanup thread of                 *)
(* backend/server.py).  Every request runs in a thread of its own, so a    *)
(* handler is one step per access to the collection: what it read stays    *)
(* in requests[p] until its next step.  A booking is known by its          *)
(* position in the collection; times are half-hours of one day (20 is      *)
(* 10:00, 21 is 10:30).  One station is modelled, with one CCS charger     *)
(* and no CHAdeMO charger.                                                 *)

Users == {"u1", "u2"}
Procs == {1, 2}
ChargerTypes == {"CCS", "CHAdeMO"}
StationChargers == [CCS |-> 1, CHAdeMO |-> 0]
BookingTimes == {20, 21}
CleanupTimes == {23, 24}
StatusUpdates == {"cancelled", "pending_payment"}

\* timedelta(hours=1), line 288
SlotLength == 2
\* booking_data.get('booking_duration', 60), line 415
EstimatedDuration == 2

MaxBookings == 2

NoCall == [op |-> "none"]

BookingIds == 1..Len(bookings)

\* lines 399-426, with the booking_data of the /auto-book-slot route
NewBooking(user_id, charger_type, booking_datetime) ==
    [user_id |-> user_id, charger_type |-> charger_type,
     booking_datetime |-> booking_datetime,
     status |-> "confirmed", payment_status |-> "none",
     requires_payment |-> TRUE, admin_amount_set |-> FALSE,
     khalti_idx |-> FALSE]

\* lines 311-317: the count_documents query of check_slot_availability
ExistingBookings(charger_type, slot_start) ==
    Cardinality({ b \in BookingIds :
        /\ bookings[b].charger_type = charger_type
        /\ bookings[b].status \in {"confirmed", "in_progress"}
        /\ bookings[b].booking_datetime >= slot_start
        /\ bookings[b].booking_datetime < slot_start + SlotLength })

check_slot_availability(charger_type, booking_time) ==
    LET total_slots == StationChargers[charger_type]
        existing_bookings == ExistingBookings(charger_type, booking_time)
        available_slots == total_slots - existing_bookings
    IN  IF total_slots = 0
        THEN [available |-> FALSE, available_slots |-> 0, total_slots |-> 0,
              existing_bookings |-> 0]
        ELSE [available |-> available_slots > 0,
              available_slots |-> Max(0, available_slots),
              total_slots |-> total_slots,
              existing_bookings |-> existing_bookings]

\* Booking.update_booking_status: update_one by booking_id, nothing else in the filter
update_booking_status(collection, booking_id, status) ==
    [collection EXCEPT ![booking_id].status = status]

\* everything outside the bookings collection stays as it is
BookingFrame ==
    /\ UNCHANGED <<pc, sc_in, sc_out, en_in, en_out, st_in, st_out, HandlerVars>>
    /\ UNCHANGED RunVars

Finish(p) == requests' = [requests EXCEPT ![p] = NoCall]

CreatesInFlight == Cardinality({ p \in Procs : requests[p].op = "create_timed_booking" })

\* create_timed_booking, line 390: the availability it reads
CheckSlotAvailability(p) ==
    /\ requests[p] = NoCall
    /\ Len(bookings) + CreatesInFlight < MaxBookings
    /\ \E user_id \in Users, charger_type \in ChargerTypes, booking_time \in BookingTimes :
          requests' = [requests EXCEPT ![p] =
              [op |-> "create_timed_booking", user_id |-> user_id,
               charger_type |-> charger_type, booking_time |-> booking_time,
               availability |-> check_slot_availability(charger_type, booking_time)]]
    /\ UNCHANGED <<bookings, clock, expired_bookings, paid_succeeded>>
    /\ BookingFrame

\* create_timed_booking, lines 392-397: no slot was seen free
RejectTimedBooking(p) ==
    /\ requests[p].op = "create_timed_booking"
    /\ ~requests[p].availability.available
    /\ Finish(p)
    /\ UNCHANGED <<bookings, clock, expired_bookings, paid_succeeded>>
    /\ BookingFrame

\* create_timed_booking, lines 399-430: the insert
InsertTimedBooking(p) ==
    /\ requests[p].op = "create_timed_booking"
    /\ requests[p].availability.available
    /\ bookings' = Append(bookings, NewBooking(requests[p].user_id,
                                               requests[p].charger_type,
                                               requests[p].booking_time))
    /\ Finish(p)
    /\ UNCHANGED <<clock, expired_bookings, paid_succeeded>>
    /\ BookingFrame

\* PUT /<booking_id>/status: the authenticated user is not passed on
UpdateBookingStatus(current_user_id, booking_id, new_status) ==
    /\ bookings' = update_booking_status(bookings, booking_id, new_status)
    /\ UNCHANGED <<clock, requests, expired_bookings, paid_succeeded>>
    /\ BookingFrame

PutBookingStatus ==
    \E current_user_id \in Users, booking_id \in BookingIds, new_status \in StatusUpdates :
        UpdateBookingStatus(current_user_id, booking_id, new_status)

\* the ids of the bookings that satisfy Test, in the collection's order
SelectIds(Test(_)) == SelectSeq([b \in BookingIds |-> b], Test)

\* cleanup_expired_bookings, lines 909-921: the query, at the time it reads
Expired(b, current_time) ==
    /\ bookings[b].status \in {"confirmed", "in_progress"}
    /\ bookings[b].booking_datetime + EstimatedDuration < current_time

CleanupFind ==
    /\ expired_bookings = <<>>
    /\ \E current_time \in CleanupTimes :
          /\ current_time >= clock
          /\ clock' = current_time
          /\ expired_bookings' = SelectIds(LAMBDA b : Expired(b, current_time))
    /\ UNCHANGED <<bookings, requests, paid_succeeded>>
    /\ BookingFrame

\* cleanup_expired_bookings, lines 924-930: one booking of the cursor, by _id
CleanupUpdate ==
    /\ expired_bookings # <<>>
    /\ bookings' = [bookings EXCEPT ![Head(expired_bookings)].status = "completed"]
    /\ expired_bookings' = Tail(expired_bookings)
    /\ UNCHANGED <<clock, requests, paid_succeeded>>
    /\ BookingFrame

\* the server with no booking yet
InitSlots ==
    /\ pc = "Serving"
    /\ NoRun
    /\ Idle
    /\ bookings = <<>>
    /\ clock = 0
    /\ requests = [p \in Procs |-> NoCall]
    /\ expired_bookings = <<>>
    /\ paid_succeeded = {}

NextSlots ==
    \/ \E p \in Procs : CheckSlotAvailability(p)
    \/ \E p \in Procs : RejectTimedBooking(p)
    \/ \E p \in Procs : InsertTimedBooking(p)
    \/ PutBookingStatus
    \/ CleanupFind
    \/ CleanupUpdate

SpecSlots == InitSlots /\ [][NextSlots]_vars

\* C21: a status update requested through PUT /<booking_id>/status changes
\* the booking only if the booking belongs to the authenticated user; a
\* request on another user's booking leaves that booking's status unchanged.
C21_OnlyOwnerChangesStatus ==
    [][\A current_user_id \in Users, booking_id \in BookingIds, new_status \in StatusUpdates :
          UpdateBookingStatus(current_user_id, booking_id, new_status)
          /\ bookings[booking_id].user_id # current_user_id
          => bookings'[booking_id].status = bookings[booking_id].status]_vars

\* C25: across any interleaving of concurrent create_timed_booking calls, the
\* number of confirmed or in_progress bookings for one station, charger type
\* and one-hour slot window never exceeds the number of chargers of that
\* type at the station.
C25_SlotNeverOverbooked ==
    \A charger_type \in ChargerTypes, slot_start \in BookingTimes :
        ExistingBookings(charger_type, slot_start) <= StationChargers[charger_type]

----------------------------------------------------------------------------
(* Paying for a booking (specification SpecPayment): the payment routes,   *)
(* the admin's amount, the status route and the cleanup thread, working    *)
(* on one booking that user u1 made for 10:00.                             *)

\* Booking.update_payment_info: payment_data's khalti_idx and status become
\* fields of the booking (lines 541-548)
update_payment_info(collection, booking_id, payment_data) ==
    [collection EXCEPT ![booking_id] =
        [@ EXCEPT !.khalti_idx = Get(payment_data, "khalti_idx", @),
                  !.payment_status = Get(payment_data, "status", @)]]

\* Booking.update_booking_to_pay_later (lines 952-961)
update_booking_to_pay_later(collection, booking_id) ==
    [collection EXCEPT ![booking_id].status = "confirmed",
                       ![booking_id].payment_status = "deferred"]

\* Booking.admin_set_charging_amount (lines 774-795)
admin_set_charging_amount(collection, booking_id) ==
    [collection EXCEPT ![booking_id].requires_payment = TRUE,
                       ![booking_id].admin_amount_set = TRUE,
                       ![booking_id].payment_status = "pending"]

\* update_payment_status, lines 586-618: the document after $set of
\* update_data; every key k of payment_data is written as payment_<k>, so a
\* 'status' key lands on payment_status
PaymentUpdate(booking, payment_status, payment_data) ==
    LET with_status == [booking EXCEPT !.payment_status = payment_status]
        by_status ==
            IF payment_status = "paid"
            THEN [with_status EXCEPT !.status = "confirmed",
                                     !.requires_payment = FALSE]
            ELSE IF payment_status = "deferred"
            THEN [with_status EXCEPT !.status = "confirmed"]
            ELSE with_status
    IN  [by_status EXCEPT !.payment_status = Get(payment_data, "status", @)]

\* the query of get_pending_payment_bookings_for_user (lines 832-838), which
\* update_payment_status repeats (lines 637-643)
PendingPayments(user_id) ==
    { b \in BookingIds :
        /\ bookings[b].user_id = user_id
        /\ bookings[b].requires_payment
        /\ bookings[b].admin_amount_set
        /\ bookings[b].status # "cancelled"
        /\ bookings[b].payment_status \in {"pending", "failed"} }

\* what Khalti answers to /epayment/initiate/
KhaltiAnswers == {"pidx", "no pidx"}

\* a call of update_payment_status about to write
PaymentStatusCall(caller, booking_id, payment_data) ==
    [op |-> "update_payment_status", caller |-> caller,
     step |-> "find_one_and_update", booking_id |-> booking_id,
     payment_status |-> "paid", payment_data |-> payment_data]

\* initiate_payment, lines 99-127: the booking as read, and the checks on it
InitiatePaymentCheck(p) ==
    /\ requests[p] = NoCall
    /\ \E current_user_id \in Users, booking_id \in BookingIds :
          /\ bookings[booking_id].user_id = current_user_id
          /\ bookings[booking_id].admin_amount_set
          /\ bookings[booking_id].requires_payment
          /\ requests' = [requests EXCEPT ![p] =
                [op |-> "initiate_payment", booking_id |-> booking_id]]
    /\ UNCHANGED <<bookings, clock, expired_bookings, paid_succeeded>>
    /\ BookingFrame

\* initiate_payment, lines 176-281: Khalti's answer and update_payment_info
InitiatePaymentUpdate(p) ==
    /\ requests[p].op = "initiate_payment"
    /\ \E answer \in KhaltiAnswers :
          bookings' =
             IF answer = "pidx"
             THEN update_payment_info(bookings, requests[p].booking_id,
                                      [khalti_idx |-> TRUE, status |-> "pending"])
             ELSE bookings
    /\ Finish(p)
    /\ UNCHANGED <<clock, expired_bookings, paid_succeeded>>
    /\ BookingFrame

\* pay_later, lines 663-683: the booking as read, and the checks on it
PayLaterCheck(p) ==
    /\ requests[p] = NoCall
    /\ \E current_user_id \in Users, booking_id \in BookingIds :
          /\ bookings[booking_id].user_id = current_user_id
          /\ bookings[booking_id].status = "pending_payment"
          /\ requests' = [requests EXCEPT ![p] =
                [op |-> "pay_later", booking_id |-> booking_id]]
    /\ UNCHANGED <<bookings, clock, expired_bookings, paid_succeeded>>
    /\ BookingFrame

\* pay_later, line 686
PayLaterUpdate(p) ==
    /\ requests[p].op = "pay_later"
    /\ bookings' = update_booking_to_pay_later(bookings, requests[p].booking_id)
    /\ Finish(p)
    /\ UNCHANGED <<clock, expired_bookings, paid_succeeded>>
    /\ BookingFrame

\* payment_webhook, lines 572-593, status 'Completed': no authentication,
\* the booking is the product_identity of the body
PaymentWebhook(p) ==
    /\ requests[p] = NoCall
    /\ \E product_identity \in BookingIds :
          requests' = [requests EXCEPT ![p] =
              PaymentStatusCall("webhook", product_identity,
                                [webhook_received |-> TRUE, status |-> "Completed"])]
    /\ UNCHANGED <<bookings, clock, expired_bookings, paid_succeeded>>
    /\ BookingFrame

\* verify_payment, lines 376-411: Khalti reports the payment of a pidx as
\* Completed and the booking is found by its khalti_idx
VerifyPayment(p) ==
    /\ requests[p] = NoCall
    /\ \E booking_id \in BookingIds :
          /\ bookings[booking_id].khalti_idx
          /\ requests' = [requests EXCEPT ![p] =
                PaymentStatusCall("verify", booking_id, [khalti_idx |-> TRUE])]
    /\ UNCHANGED <<bookings, clock, expired_bookings, paid_succeeded>>
    /\ BookingFrame

\* update_payment_status, lines 620-625: find_one_and_update, one atomic write
FindOneAndUpdate(p) ==
    /\ requests[p].op = "update_payment_status"
    /\ requests[p].step = "find_one_and_update"
    /\ LET call == requests[p]
           updated == PaymentUpdate(bookings[call.booking_id],
                                    call.payment_status, call.payment_data)
       IN  /\ bookings' = [bookings EXCEPT ![call.booking_id] = updated]
           /\ requests' = [requests EXCEPT ![p] =
                 [op |-> "update_payment_status", caller |-> call.caller,
                  step |-> "verification", booking_id |-> call.booking_id,
                  payment_status |-> call.payment_status,
                  payment_data |-> call.payment_data, result |-> updated,
                  new_amount |-> FALSE]]
    /\ UNCHANGED <<clock, expired_bookings, paid_succeeded>>
    /\ BookingFrame

\* update_payment_status, lines 627-677: the returned document is checked,
\* the pending query is run again and a booking still found there is
\* written once more; then the caller goes on (verify_payment refetches the
\* booking, line 414)
VerifyUpdatedBooking(p) ==
    /\ requests[p].op = "update_payment_status"
    /\ requests[p].step = "verification"
    /\ LET call == requests[p]
           verified == /\ call.result.payment_status = "paid"
                       /\ ~call.result.requires_payment
           still_pending ==
              verified /\ call.booking_id \in PendingPayments(call.result.user_id)
       IN  /\ bookings' =
                 IF still_pending
                 THEN [bookings EXCEPT ![call.booking_id].requires_payment = FALSE,
                                       ![call.booking_id].payment_status = "paid"]
                 ELSE bookings
           /\ paid_succeeded' =
                 IF verified /\ ~call.new_amount
                 THEN paid_succeeded \cup {call.booking_id}
                 ELSE paid_succeeded
           /\ requests' = [requests EXCEPT ![p] =
                 IF verified /\ call.caller = "verify"
                 THEN [op |-> "verify_payment", step |-> "refetch",
                       booking_id |-> call.booking_id]
                 ELSE NoCall]
    /\ UNCHANGED <<clock, expired_bookings>>
    /\ BookingFrame

\* verify_payment, lines 414-424: the booking is read again
RefetchBooking(p) ==
    /\ requests[p].op = "verify_payment"
    /\ requests[p].step = "refetch"
    /\ requests' = [requests EXCEPT ![p] =
          IF bookings[requests[p].booking_id].payment_status = "paid"
          THEN [op |-> "verify_payment", step |-> "pending",
                booking_id |-> requests[p].booking_id]
          ELSE NoCall]
    /\ UNCHANGED <<bookings, clock, expired_bookings, paid_succeeded>>
    /\ BookingFrame

\* verify_payment, lines 453-482: a booking still among the user's pending
\* payments is updated to 'paid' once more
CheckPendingPayments(p) ==
    /\ requests[p].op = "verify_payment"
    /\ requests[p].step = "pending"
    /\ LET booking_id == requests[p].booking_id
       IN  requests' = [requests EXCEPT ![p] =
              IF booking_id \in PendingPayments(bookings[booking_id].user_id)
              THEN PaymentStatusCall("force", booking_id,
                                     [khalti_idx |-> TRUE, force_update |-> TRUE])
              ELSE NoCall]
    /\ UNCHANGED <<bookings, clock, expired_bookings, paid_succeeded>>
    /\ BookingFrame

\* the admin sets the amount to pay: a new payment is due, also for a
\* payment that is written and not yet reported (new_amount and
\* paid_succeeded are bookkeeping of the model, not state of the program)
AdminSetChargingAmount ==
    /\ \E booking_id \in BookingIds :
          /\ bookings' = admin_set_charging_amount(bookings, booking_id)
          /\ paid_succeeded' = paid_succeeded \ {booking_id}
          /\ requests' =
                [p \in Procs |->
                    IF /\ requests[p].op = "update_payment_status"
                       /\ requests[p].step = "verification"
                       /\ requests[p].booking_id = booking_id
                    THEN [requests[p] EXCEPT !.new_amount = TRUE]
                    ELSE requests[p]]
    /\ UNCHANGED <<clock, expired_bookings>>
    /\ BookingFrame

InitPayment ==
    /\ pc = "Serving"
    /\ NoRun
    /\ Idle
    /\ bookings = <<NewBooking("u1", "CCS", 20)>>
    /\ clock = 0
    /\ requests = [p \in Procs |-> NoCall]
    /\ expired_bookings = <<>>
    /\ paid_succeeded = {}

NextPayment ==
    \/ \E p \in Procs : InitiatePaymentCheck(p)
    \/ \E p \in Procs : InitiatePaymentUpdate(p)
    \/ \E p \in Procs : PayLaterCheck(p)
    \/ \E p \in Procs : PayLaterUpdate(p)
    \/ \E p \in Procs : PaymentWebhook(p)
    \/ \E p \in Procs : VerifyPayment(p)
    \/ \E p \in Procs : FindOneAndUpdate(p)
    \/ \E p \in Procs : VerifyUpdatedBooking(p)
    \/ \E p \in Procs : RefetchBooking(p)
    \/ \E p \in Procs : CheckPendingPayments(p)
    \/ AdminSetChargingAmount
    \/ PutBookingStatus
    \/ CleanupFind
    \/ CleanupUpdate

SpecPayment == InitPayment /\ [][NextPayment]_vars

\* C26: once update_payment_status(booking, 'paid') has succeeded, the
\* booking keeps payment_status = 'paid' and requires_payment = false, and
\* is absent from get_pending_payment_bookings_for_user, under any
\* interleaving with initiate-payment, pay-later, webhook and verify
\* requests, until an admin sets a new charging amount.
C26_PaidStaysPaid ==
    \A b \in paid_succeeded :
        /\ bookings[b].payment_status = "paid"
        /\ ~bookings[b].requires_payment
        /\ b \notin PendingPayments(bookings[b].user_id)

\* C27: a booking whose status has become completed (by
\* cleanup_expired_bookings) is never moved back to confirmed by a later
\* payment operation (update_payment_status with 'paid' or 'deferred').
C27_CompletedStaysCompleted ==
    [][\A p \in Procs, b \in BookingIds :
          FindOneAndUpdate(p) /\ bookings[b].status = "completed"
          => bookings'[b].status # "confirmed"]_vars

============================================================================
